---- MODULE Spec2Model ----
(***************************************************************************)
(* Manager lifecycle (BaseManager / SingletonManager), the EnemySpawner    *)
(* with its host timers and live-enemy group, and the Game scene paths     *)
(* that create and tear the spawner's host scene down.                     *)
(*                                                                         *)
(* The host engine (scene clock, physics group) is modelled only as far as *)
(* the managers observe it.  A scene's clock holds the repeating timers    *)
(* and the one-shot delayed calls scheduled on it; it forgets a timer once *)
(* it is removed or has fired for the last time, so timers are counted per *)
(* scene and only the timer the spawner still references is kept apart.    *)
(* Enemies of one group are interchangeable, so a group holds their count. *)
(***************************************************************************)
EXTENDS Integers, Sequences, FiniteSets, TLC

\* ---- bounds of the model ------------------------------------------------
MaxScenes == 2          \* host scenes; scene 1 is the menu scene, never removed
MaxTimers == 1          \* start() calls whose callbacks are still scheduled
MaxCap == 2             \* values 1..MaxCap of maxEnemies (15 in the source)
MaxListeners == 2       \* SCENE_SHUTDOWN listeners registered by one manager
MaxInstances == 4       \* manager instances ever constructed by the registry
MaxObjects == 3         \* poolable objects ever constructed
MaxPoolCap == 2         \* values 0..MaxPoolCap given to setMaxPoolSize
MaxHandlerSets == 2     \* times GameStateManager.onInitialize registers its handlers
MaxCount == 1           \* sum of the session's counters up to which events add to them
MaxDelta == 1           \* values 1..MaxDelta of a score delta or a damage
MaxTime == 1            \* seconds the clock runs
MaxBusListeners == 2    \* callbacks registered for one event
MaxOnce == 1            \* once() calls, each making a wrapper
MaxCalls == 2           \* invocations counted for the callback of one once()
Resolution == 2         \* values of Math.random() * totalWeight per unit of weight
Samples == 2            \* steps between the ends of a Phaser.Math.Between range
RandomSteps == 4        \* values of Math.random() in Phaser.Utils.Array.GetRandom
MaxSeconds == 330       \* seconds of game time
MaxStarts == 2          \* repeating timers the clocks hold when start() is called freely
MaxDestroys == 2        \* destroy() calls on one object up to which its holder returns it
MaxNesting == 1         \* emit() calls a callback makes from inside an emit()

\* ---- program constants ----------------------------------------------------
InitialSpawns == 3      \* staggered one-shot spawns scheduled by start()
DefaultMaxPoolSize == 50 \* pool size limit of a key without a configured one
MsPerSecond == 1000     \* Date.now() counts milliseconds, score.time seconds
BaseMultiplier == 10    \* difficulty multiplier 1.0 of a new session, in tenths
BaseLevel == 1          \* difficulty level of a new session
Margin == 50            \* distance of the spawn candidates from the view's edge
DefaultSpawnDistance == 400 \* EnemySpawner.spawnDistance
DifficultyWindow == 30  \* seconds per step of the difficulty
DifficultyBase == 10    \* multiplier 1 at the start, in tenths
DifficultyStep == 1     \* 0.1 per window, in tenths
DifficultyCap == 20     \* the upper bound 2.0, in tenths

NullRef == 0
MenuScene == 1
Scenes == 1..MaxScenes
ManagerTypes == {"EnemySpawner", "GameStateManager", "ConfigManager"}
PoolKeys == {"bullets"}           \* OptimizedBullet.POOL_KEY, the one key in use
Objects == 1..MaxObjects

VARIABLES
    \* EnemySpawner (a BaseManager) fields
    scene,              \* BaseManager.scene: NullRef or a scene id
    initialized,        \* BaseManager.initialized
    enemies,            \* EnemySpawner.enemies: the physics group
    player,             \* EnemySpawner.player is set
    spawnTimer,         \* EnemySpawner.spawnTimer: the referenced TimerEvent
    maxEnemies,         \* EnemySpawner.maxEnemies
    \* host engine and event bus
    scenes,             \* scene id -> "none" | "active" | "fading" | "removed"
    loops,              \* scene id -> armed repeating spawn timers on its clock
    shots,              \* scene id -> pending one-shot spawn calls on its clock
    shutdownListeners,  \* SCENE_SHUTDOWN listeners this manager has on the bus
    emitted,            \* ENEMY_SPAWN events that the last operation emitted
    \* history
    lastOp,             \* the operation that ran last
    lastArg,            \* the scene it was given (NullRef when it takes none)
    prev,               \* the operation before it: "same", "reset" or "other"
    threw,              \* whether the last operation threw
    quiesced,           \* stop(), cleanup() or reset() has returned and start()
                        \* was not called since
    \* singleton registry
    instances,          \* manager type -> NullRef or instance id
    made,               \* instances constructed so far
    lastGot,            \* manager type -> instance its last getInstance() returned,
                        \* NullRef after resetInstance()
    instCleanups,       \* instance id -> number of cleanup() calls on it
    \* ObjectPoolManager
    pools,              \* pool key -> whether the map has the key, and its array
    maxPoolSizes,       \* pool key -> the configured size, NullRef without one
    objects,            \* object id -> constructed, active, number of destroy() calls
    poolRun,            \* the run of returnToPool() calls that is going on
    \* GameStateManager
    currentState,       \* GameStateManager.currentState
    previousState,      \* GameStateManager.previousState
    session,            \* GameStateManager.session
    gsInitialized,      \* BaseManager.initialized of the GameStateManager
    gsHandlers,         \* handler sets the manager has registered on the event bus
    now,                \* Date.now()
    sent,               \* what the counting events sent since the session began add up to
    \* EventBus
    listeners,          \* event -> the registered callbacks, in insertion order
    onceMade,           \* wrappers made by once() so far
    onceCalls,          \* wrapper -> invocations of the callback it wraps
    delivered,          \* the number of callbacks the last emit() invoked
    caught,             \* the errors the last emit() caught
    busCall,            \* the event of the last EventBus call, and whether its
                        \* callback was registered for the event when it was made
    \* calculations
    random,             \* Math.random() * totalWeight of getRandomEnemyType()
    enemyType,          \* the archetype it returned, "none" before the call
    spawnCase,          \* the inputs of getRandomSpawnPosition()
    spawnPos,           \* the position it returned
    gameElapsedTime,    \* Game.gameElapsedTime, milliseconds
    difficultyMultiplier, \* BattleEnemy.difficultyMultiplier of a live enemy, tenths
    \* OptimizedBullet
    bulletTimers,       \* object id -> its lifeTimer field, and the lifetime timers
                        \* pending on the clock that the field does not reference
    bulletRun           \* the bullet the last bullet operation acted on, and how

spawnerVars == <<scene, initialized, enemies, player, spawnTimer, maxEnemies>>
hostVars == <<scenes, loops, shots, shutdownListeners>>
histVars == <<lastOp, lastArg, prev, threw, quiesced, emitted>>
regVars == <<instances, made, lastGot, instCleanups>>
poolVars == <<pools, maxPoolSizes, objects, poolRun>>
\* what the spawner, its host and the Game scene leave alone
gsVars == <<currentState, previousState, session, gsInitialized, gsHandlers, now, sent>>
busVars == <<listeners, onceMade, onceCalls, delivered, caught, busCall>>
calcVars == <<random, enemyType, spawnCase, spawnPos, gameElapsedTime, difficultyMultiplier>>
bulletVars == <<bulletTimers, bulletRun>>
restOfSpawner == <<regVars, poolVars, gsVars, busVars, calcVars, bulletVars>>
\* what the registry leaves alone
restOfRegistry == <<spawnerVars, hostVars, threw, emitted, poolVars, gsVars, busVars, calcVars, bulletVars>>
vars == <<spawnerVars, hostVars, histVars, regVars, poolVars, gsVars, busVars, calcVars, bulletVars>>

\* ---- the state as one record, so that handlers compose --------------------
\* Besides the fields, the record collects what a handler did while it ran:
\* whether it threw, the hooks it ran (in order), the ENEMY_SPAWN events it
\* emitted, the enemies it destroyed and the remove() calls it made on timers.
\* "this.enemies": undefined, a live group, a group whose scene is gone
\* (children is undefined), or a group whose children lost their scene
\* ("faulty": clear() throws on them)
NoGroup == [status |-> "undefined", scene |-> NullRef, maxSize |-> 0, size |-> 0]
\* "this.spawnTimer": null, or a TimerEvent with the clock it is on, whether that
\* clock still runs it, and how often remove() was called on it
NoTimer == [set |-> FALSE, scene |-> NullRef, armed |-> FALSE, removes |-> 0]

State ==
    [scene |-> scene, initialized |-> initialized, enemies |-> enemies,
     player |-> player, spawnTimer |-> spawnTimer, maxEnemies |-> maxEnemies,
     scenes |-> scenes, loops |-> loops, shots |-> shots,
     shutdownListeners |-> shutdownListeners,
     threw |-> FALSE, hooks |-> <<>>, emitted |-> 0, destroyed |-> 0, removed |-> 0]

Apply(st) ==
    /\ scene' = st.scene
    /\ initialized' = st.initialized
    /\ enemies' = st.enemies
    /\ player' = st.player
    /\ spawnTimer' = st.spawnTimer
    /\ maxEnemies' = st.maxEnemies
    /\ scenes' = st.scenes
    /\ loops' = st.loops
    /\ shots' = st.shots
    /\ shutdownListeners' = st.shutdownListeners
    /\ emitted' = st.emitted
    /\ threw' = st.threw

\* A throw; the statements after one do not run.
Throw(st) == [st EXCEPT !.threw = TRUE]

SceneAlive(st, s) == s # NullRef /\ st.scenes[s] \in {"active", "fading"}

\* ---- host engine ----------------------------------------------------------
\* Group.clear(true, true): every child is removed and destroyed.
GroupClear(st) == [st EXCEPT !.enemies.size = 0, !.destroyed = @ + st.enemies.size]

\* TimerEvent.remove() on the referenced timer
TimerRemove(st) ==
    LET t == st.spawnTimer
    IN [st EXCEPT !.loops[t.scene] = IF t.armed THEN @ - 1 ELSE @,
                  !.spawnTimer.armed = FALSE,
                  !.spawnTimer.removes = @ + 1,
                  !.removed = @ + 1]

\* ---- BaseManager.isInitialized / getScene ---------------------------------
isInitialized(st) == st.initialized /\ st.scene # NullRef

\* getScene(): TRUE when it throws
getSceneThrows(st) == st.scene = NullRef

\* ---- EnemySpawner ---------------------------------------------------------
setPlayer(st) == [st EXCEPT !.player = TRUE]

\* ensurePlayerSet(): TRUE when it throws
ensurePlayerSetThrows(st) == ~st.player

\* stop() that removes the timer and keeps the reference to it
stopKeepsTimer(st) ==
    IF st.spawnTimer.set THEN TimerRemove(st) ELSE st

stop(st) ==
    IF st.spawnTimer.set
    THEN [TimerRemove(st) EXCEPT !.spawnTimer = NoTimer]
    ELSE st

\* start() without ensurePlayerSet()
startWithoutPlayer(st) ==
    IF st.scene = NullRef THEN [st EXCEPT !.threw = TRUE]
    ELSE LET alive == st.scenes[st.scene] \in {"active", "fading"}
         IN [st EXCEPT !.shots[st.scene] = IF alive THEN @ + InitialSpawns ELSE @,
                       !.loops[st.scene] = IF alive THEN @ + 1 ELSE @,
                       !.spawnTimer = [set |-> TRUE, scene |-> st.scene,
                                       armed |-> alive, removes |-> 0]]

\* start(): three delayedCall(i * 200) one-shots, then the repeating timer.
\* Both are registered on getScene(); a removed scene's clock never runs them.
start(st) ==
    IF ensurePlayerSetThrows(st) THEN Throw(st)
    ELSE IF getSceneThrows(st) THEN Throw(st)
    ELSE LET alive == SceneAlive(st, st.scene)
         IN [st EXCEPT !.shots[st.scene] = IF alive THEN @ + InitialSpawns ELSE @,
                       !.loops[st.scene] = IF alive THEN @ + 1 ELSE @,
                       !.spawnTimer = [set |-> TRUE, scene |-> st.scene,
                                       armed |-> alive, removes |-> 0]]

\* Group.clear(true, true) throws on this group
ClearThrows(st) == st.enemies.status = "faulty" /\ st.enemies.size > 0

\* clearAllEnemies() without the try / catch
clearAllEnemiesNoCatch(st) ==
    IF st.enemies.status \in {"valid", "faulty"}
    THEN IF st.enemies.status = "faulty" /\ st.enemies.size > 0
         THEN [st EXCEPT !.threw = TRUE]
         ELSE GroupClear(st)
    ELSE st

\* clearAllEnemies(): a clear() that throws is caught and the group dropped
clearAllEnemies(st) ==
    IF st.enemies.status \in {"valid", "faulty"}
    THEN IF ClearThrows(st) THEN [st EXCEPT !.enemies = NoGroup] ELSE GroupClear(st)
    ELSE st

onCleanup(st) ==
    LET a == stop(st)
        b == clearAllEnemies(a)
    IN [b EXCEPT !.player = FALSE, !.hooks = Append(@, "onCleanup")]

onInitialize(st) ==
    LET a == IF st.enemies.status \in {"valid", "faulty"} /\ ~ClearThrows(st)
             THEN GroupClear(st)
             ELSE st                          \* skipped, or thrown and caught
    IN IF getSceneThrows(a) THEN Throw(a)
       ELSE [a EXCEPT !.enemies = [status |-> "valid", scene |-> a.scene,
                                   maxSize |-> a.maxEnemies, size |-> 0],
                      !.hooks = Append(@, "onInitialize")]

\* spawnEnemy() without the check of the live count
spawnEnemyUncapped(st) ==
    IF ~st.player THEN [st EXCEPT !.threw = TRUE]
    ELSE IF st.enemies.status = "undefined" THEN st
    ELSE IF st.enemies.status = "corrupt" \/ st.scene = NullRef THEN [st EXCEPT !.threw = TRUE]
    ELSE [st EXCEPT !.enemies.size = IF @ >= st.enemies.maxSize THEN @ ELSE @ + 1,
                    !.emitted = @ + 1]

\* spawnEnemy(): the callback of the repeating timer and of the one-shots.
spawnEnemy(st) ==
    IF ensurePlayerSetThrows(st) THEN Throw(st)
    ELSE IF st.enemies.status = "undefined" THEN st
    ELSE IF st.enemies.status = "corrupt" THEN Throw(st)   \* children is undefined
    ELSE IF st.enemies.size >= st.maxEnemies THEN st
    ELSE IF getSceneThrows(st) THEN Throw(st)              \* getRandomSpawnPosition
    ELSE [st EXCEPT !.enemies.size =                       \* Group.add: isFull()
                        IF @ >= st.enemies.maxSize THEN @ ELSE @ + 1,
                    !.emitted = @ + 1]

\* getEnemies(): TRUE when it throws
getEnemiesThrows(st) == st.enemies.status = "undefined"

\* reset() without "this.initialized = false"
resetKeepsInitialized(st) == onCleanup(st)

reset(st) == [onCleanup(st) EXCEPT !.initialized = FALSE]

\* cfg.spawnInterval (present or not) and cfg.maxEnemies (NullRef = undefined)
updateSpawnConfig(st, hasInterval, newMax) ==
    LET a == IF hasInterval /\ st.spawnTimer.set THEN start(stop(st)) ELSE st
    IN IF a.threw \/ newMax = NullRef THEN a
       ELSE [a EXCEPT !.maxEnemies = newMax]

getEnemyCount(st) ==
    IF st.enemies.status = "undefined" THEN 0 ELSE st.enemies.size

\* ---- BaseManager ----------------------------------------------------------
\* initialize() without the "already initialized" guard
initializeUnguarded(st, s) ==
    LET a == onInitialize([st EXCEPT !.scene = s, !.initialized = TRUE])
    IN IF a.threw THEN a ELSE [a EXCEPT !.shutdownListeners = @ + 1]

initialize(st, s) ==
    IF st.initialized THEN st
    ELSE LET a == onInitialize([st EXCEPT !.scene = s, !.initialized = TRUE])
         IN IF a.threw THEN a ELSE [a EXCEPT !.shutdownListeners = @ + 1]

cleanup(st) == [onCleanup(st) EXCEPT !.initialized = FALSE, !.scene = NullRef]

forceReinitialize(st, s) ==
    onInitialize([onCleanup(st) EXCEPT !.scene = s])

\* emit(SCENE_SHUTDOWN): each of the n listeners that initialize() registered
\* runs cleanup(); emit() catches what a listener throws
RECURSIVE emitShutdown(_, _)
emitShutdown(st, n) ==
    IF n = 0 THEN st
    ELSE emitShutdown([cleanup(st) EXCEPT !.threw = FALSE], n - 1)

\* ---- Game scene -----------------------------------------------------------
\* Game.createBattleSystem() of scene s; the tilemap holds a player object, so
\* "this.player" is set
createBattleSystem(st, s) ==
    LET b == IF isInitialized(st) THEN forceReinitialize(st, s) ELSE initialize(st, s)
        c == IF b.threw THEN b ELSE setPlayer(b)
        d == IF c.threw THEN c ELSE IF getEnemiesThrows(c) THEN Throw(c) ELSE c
    IN IF d.threw THEN d ELSE start(d)

\* Game.restartGame(): stops the spawner, then fades out
restartGame(st, s) == [stop(st) EXCEPT !.scenes[s] = "fading"]

\* Game.victory(): fades out
victory(st, s) == [st EXCEPT !.scenes[s] = "fading"]

\* FADE_OUT_COMPLETE: scene.start('Victory') and scene.remove('Game').  The host
\* drops the scene's clock and destroys its display list and groups.
sceneRemove(st, s) ==
    [st EXCEPT !.scenes[s] = "removed",
               !.loops[s] = 0,
               !.shots[s] = 0,
               !.spawnTimer.armed = IF st.spawnTimer.scene = s THEN FALSE ELSE @,
               !.enemies = IF @.scene = s /\ @.status = "valid"
                           THEN [@ EXCEPT !.status = "corrupt", !.size = 0]
                           ELSE @]

\* Game.destroy(): resets the spawner, then clears the (already empty) groups
destroy(st, s) == clearAllEnemies(reset(st))

\* ---- actions --------------------------------------------------------------
Note(op, arg, q) ==
    /\ lastOp' = op
    /\ lastArg' = arg
    /\ prev' = IF lastOp = op THEN "same" ELSE IF lastOp = "reset" THEN "reset" ELSE "other"
    /\ quiesced' = q

AliveScenes == {s \in Scenes : scenes[s] \in {"active", "fading"}}
GameScenes == AliveScenes \ {MenuScene}
RECURSIVE Sum(_, _)
Sum(f, S) == IF S = {} THEN 0
             ELSE LET x == CHOOSE y \in S : TRUE IN f[x] + Sum(f, S \ {x})
\* the clocks have room for the callbacks of `starts` more start() calls
CanSchedule(starts) ==
    /\ Sum(loops, Scenes) + starts <= MaxTimers
    /\ Sum(shots, Scenes) + starts * InitialSpawns <= MaxTimers * InitialSpawns

Initialize ==
    \E s \in AliveScenes :
        /\ initialized \/ shutdownListeners < MaxListeners
        /\ Apply(initialize(State, s))
        /\ Note("initialize", s, quiesced)
        /\ UNCHANGED restOfSpawner

ForceReinitialize ==
    \E s \in AliveScenes :
        /\ Apply(forceReinitialize(State, s))
        /\ Note("forceReinitialize", s, quiesced)
        /\ UNCHANGED restOfSpawner

Cleanup ==
    /\ Apply(cleanup(State))
    /\ Note("cleanup", NullRef, TRUE)
    /\ UNCHANGED restOfSpawner

Reset ==
    /\ Apply(reset(State))
    /\ Note("reset", NullRef, TRUE)
    /\ UNCHANGED restOfSpawner

SetPlayer ==
    /\ Apply(setPlayer(State))
    /\ Note("setPlayer", NullRef, quiesced)
    /\ UNCHANGED restOfSpawner

Start ==
    /\ CanSchedule(1)
    /\ Apply(start(State))
    /\ Note("start", NullRef, FALSE)
    /\ UNCHANGED restOfSpawner

Stop ==
    /\ Apply(stop(State))
    /\ Note("stop", NullRef, TRUE)
    /\ UNCHANGED restOfSpawner

\* a repeating timer on the clock of scene s fires
TimerTick ==
    \E s \in AliveScenes :
        /\ loops[s] > 0
        /\ Apply(spawnEnemy(State))
        /\ Note("timerTick", NullRef, quiesced)
        /\ UNCHANGED restOfSpawner

\* a one-shot delayed call on the clock of scene s fires
DelayedSpawn ==
    \E s \in AliveScenes :
        /\ shots[s] > 0
        /\ Apply(spawnEnemy([State EXCEPT !.shots[s] = @ - 1]))
        /\ Note("delayedSpawn", NullRef, quiesced)
        /\ UNCHANGED restOfSpawner

\* an enemy of the group dies (BattleEnemy.die) and destroys itself
EnemyDies ==
    /\ enemies.size > 0
    /\ Apply([State EXCEPT !.enemies.size = @ - 1])
    /\ Note("enemyDies", NullRef, quiesced)
    /\ UNCHANGED restOfSpawner

\* the children of the live group lose their scene: clear() will throw on them
GroupFault ==
    /\ enemies.status = "valid" /\ enemies.size > 0
    /\ Apply([State EXCEPT !.enemies.status = "faulty"])
    /\ Note("groupFault", NullRef, quiesced)
    /\ UNCHANGED restOfSpawner

\* the host-shutdown event is emitted on the bus
SceneShutdown ==
    /\ Apply(emitShutdown(State, shutdownListeners))
    /\ Note("sceneShutdown", NullRef, IF shutdownListeners > 0 THEN TRUE ELSE quiesced)
    /\ UNCHANGED restOfSpawner

UpdateSpawnConfig ==
    \E hasInterval \in BOOLEAN, newMax \in 0..MaxCap :
        /\ hasInterval \/ newMax # NullRef
        /\ (hasInterval /\ spawnTimer.set) =>
               CanSchedule(IF spawnTimer.armed THEN 0 ELSE 1)
        /\ Apply(updateSpawnConfig(State, hasInterval, newMax))
        /\ Note("updateSpawnConfig", NullRef, IF hasInterval /\ spawnTimer.set THEN FALSE ELSE quiesced)
        /\ UNCHANGED restOfSpawner

\* the clocks have room for the callbacks of one more start() when start()
\* is called whatever the spawner holds
CanStartAgain ==
    /\ Sum(loops, Scenes) < MaxStarts
    /\ Sum(shots, Scenes) + InitialSpawns <= MaxStarts * InitialSpawns

\* start() by a caller that does not stop() first
StartAgain ==
    /\ CanStartAgain
    /\ Apply(start(State))
    /\ Note("start", NullRef, FALSE)
    /\ UNCHANGED restOfSpawner

\* updateSpawnConfig() by such a caller
Reconfigure ==
    \E hasInterval \in BOOLEAN, newMax \in 0..MaxCap :
        /\ hasInterval \/ newMax # NullRef
        /\ (hasInterval /\ spawnTimer.set) => CanStartAgain
        /\ Apply(updateSpawnConfig(State, hasInterval, newMax))
        /\ Note("updateSpawnConfig", NullRef, IF hasInterval /\ spawnTimer.set THEN FALSE ELSE quiesced)
        /\ UNCHANGED restOfSpawner

\* MainMenu.startGame: scene.add('Game') + scene.start('Game') -> Game.create()
GameCreate ==
    /\ GameScenes = {}
    /\ CanSchedule(IF isInitialized(State) /\ spawnTimer.armed THEN 0 ELSE 1)
    /\ initialized \/ shutdownListeners < MaxListeners
    /\ \E s \in Scenes :
          /\ scenes[s] = "none"
          /\ \A u \in Scenes : u < s => scenes[u] # "none"
          /\ Apply(createBattleSystem([State EXCEPT !.scenes[s] = "active"], s))
          /\ Note("gameCreate", s, FALSE)
    /\ UNCHANGED restOfSpawner

RestartGame ==
    \E s \in GameScenes :
        /\ Apply(restartGame(State, s))
        /\ Note("restartGame", s, TRUE)
        /\ UNCHANGED restOfSpawner

Victory ==
    \E s \in GameScenes :
        /\ Apply(victory(State, s))
        /\ Note("victory", s, quiesced)
        /\ UNCHANGED restOfSpawner

FadeComplete ==
    \E s \in GameScenes :
        /\ scenes[s] = "fading"
        /\ Apply(sceneRemove(State, s))
        /\ Note("sceneRemove", s, quiesced)
        /\ UNCHANGED restOfSpawner

GameDestroy ==
    \E s \in GameScenes :
        /\ Apply(destroy(State, s))
        /\ Note("destroy", s, TRUE)
        /\ UNCHANGED restOfSpawner

\* ---- SingletonManager: the registry ----------------------------------------
\* "this.name": the key a manager class is registered under
className(k) == k

\* getInstance() that constructs on every call
getInstanceAlwaysNew(reg, k) ==
    [reg EXCEPT !.instances[className(k)] = reg.made + 1, !.made = @ + 1]

\* getInstance() of class k: the registry afterwards, and the instance returned
getInstance(reg, k) ==
    IF reg.instances[className(k)] = NullRef
    THEN [reg EXCEPT !.instances[className(k)] = reg.made + 1, !.made = @ + 1]
    ELSE reg

getInstanceResult(reg, k) == getInstance(reg, k).instances[className(k)]

\* resetInstance() of class k: cleanup() of the instance, then delete
resetInstance(reg, k) ==
    LET i == reg.instances[className(k)]
    IN IF i # NullRef
       THEN [reg EXCEPT !.instCleanups[i] = @ + 1, !.instances[className(k)] = NullRef]
       ELSE reg

Registry == [instances |-> instances, made |-> made, instCleanups |-> instCleanups]

GetInstance(k) ==
    /\ instances[className(k)] = NullRef => made < MaxInstances
    /\ instances' = getInstance(Registry, k).instances
    /\ made' = getInstance(Registry, k).made
    /\ lastGot' = [lastGot EXCEPT ![k] = getInstanceResult(Registry, k)]
    /\ Note("getInstance", NullRef, quiesced)
    /\ UNCHANGED <<instCleanups, restOfRegistry>>

ResetInstance(k) ==
    /\ instances' = resetInstance(Registry, k).instances
    /\ instCleanups' = resetInstance(Registry, k).instCleanups
    /\ lastGot' = [lastGot EXCEPT ![k] = NullRef]
    /\ Note("resetInstance", NullRef, quiesced)
    /\ UNCHANGED <<made, restOfRegistry>>

\* ---- ObjectPoolManager -----------------------------------------------------
\* The manager's maps and the objects they refer to, as one record; `destroyed`
\* collects the destroy() calls of the operation that ran, `result` the object
\* it returned.
Pools ==
    [pools |-> pools, maxPoolSizes |-> maxPoolSizes, objects |-> objects,
     destroyed |-> 0, result |-> NullRef]

NoPool == [has |-> FALSE, objs |-> <<>>]
NoObject == [made |-> FALSE, active |-> FALSE, visible |-> FALSE, destroys |-> 0]

\* "new T()": a game object is active when constructed
construct(pm, o) ==
    [pm EXCEPT !.objects[o] = [made |-> TRUE, active |-> TRUE, visible |-> TRUE, destroys |-> 0]]

objDestroy(pm, o) ==
    [pm EXCEPT !.objects[o].destroys = @ + 1, !.objects[o].active = FALSE,
               !.objects[o].visible = FALSE, !.destroyed = @ + 1]

\* Array.indexOf: the first index of o in s, 0 when there is none
indexOf(s, o) ==
    IF \E i \in 1..Len(s) : s[i] = o
    THEN CHOOSE i \in 1..Len(s) : s[i] = o /\ \A j \in 1..(i - 1) : s[j] # o
    ELSE 0

\* Array.splice(i, 1)
splice(s, i) == [j \in 1..(Len(s) - 1) |-> IF j < i THEN s[j] ELSE s[j + 1]]

setMaxPoolSize(pm, k, n) == [pm EXCEPT !.maxPoolSizes[k] = n]

\* "this.maxPoolSizes.get(poolKey) || 50"
maxSizeOf(pm, k) ==
    IF pm.maxPoolSizes[k] = NullRef THEN DefaultMaxPoolSize ELSE pm.maxPoolSizes[k]

\* getFromPool() that calls the factory whatever the pool holds
getFromPoolAlwaysNew(pm, k, fresh) ==
    LET a == IF pm.pools[k].has THEN pm ELSE [pm EXCEPT !.pools[k] = [has |-> TRUE, objs |-> <<>>]]
    IN [construct(a, fresh) EXCEPT !.pools[k].objs = Append(@, fresh), !.result = fresh]

\* getFromPool(k, factory): the first inactive object of the pool, reactivated,
\* or else the object `fresh` that the factory constructs, pushed to the pool
getFromPool(pm, k, fresh) ==
    LET a == IF pm.pools[k].has THEN pm ELSE [pm EXCEPT !.pools[k] = [has |-> TRUE, objs |-> <<>>]]
        pool == a.pools[k].objs
        idle == {i \in 1..Len(pool) : ~a.objects[pool[i]].active}
    IN IF idle # {}
       THEN LET i == CHOOSE x \in idle : \A y \in idle : x <= y
            IN [a EXCEPT !.objects[pool[i]].active = TRUE,
                         !.objects[pool[i]].visible = TRUE, !.result = pool[i]]
       ELSE [construct(a, fresh) EXCEPT !.pools[k].objs = Append(@, fresh),
                                        !.result = fresh]

returnToPool(pm, k, o) ==
    IF ~pm.pools[k].has THEN pm
    ELSE LET pool == pm.pools[k].objs
         IN IF Len(pool) >= maxSizeOf(pm, k)
            THEN IF indexOf(pool, o) # 0
                 THEN objDestroy([pm EXCEPT !.pools[k].objs = splice(pool, indexOf(pool, o))], o)
                 ELSE pm
            ELSE [pm EXCEPT !.objects[o].active = FALSE, !.objects[o].visible = FALSE,
                            !.pools[k].objs = IF indexOf(pool, o) # 0 THEN @ ELSE Append(@, o)]

RECURSIVE destroyAll(_, _)
destroyAll(pm, s) ==
    IF s = <<>> THEN pm ELSE destroyAll(objDestroy(pm, Head(s)), Tail(s))

clearPool(pm, k) ==
    IF pm.pools[k].has
    THEN [destroyAll(pm, pm.pools[k].objs) EXCEPT !.pools[k].objs = <<>>]
    ELSE pm

\* clearAllPools(): clearPool of every key, then both maps are cleared
RECURSIVE clearPools(_, _)
clearPools(pm, keys) ==
    IF keys = {} THEN pm
    ELSE LET k == CHOOSE x \in keys : TRUE
         IN clearPools(clearPool(pm, k), keys \ {k})

clearAllPools(pm) ==
    [clearPools(pm, {k \in PoolKeys : pm.pools[k].has})
        EXCEPT !.pools = [k \in PoolKeys |-> NoPool],
               !.maxPoolSizes = [k \in PoolKeys |-> NullRef]]

ApplyPool(pm) ==
    /\ pools' = pm.pools
    /\ maxPoolSizes' = pm.maxPoolSizes
    /\ objects' = pm.objects

\* what the pool manager leaves alone
restOfPool == <<spawnerVars, hostVars, lastArg, threw, quiesced, emitted, regVars, gsVars, busVars, calcVars, bulletVars>>

NoRun == [key |-> "", calls |-> 0, objs |-> {}, destroyed |-> 0]

NotePool(op) ==
    /\ lastOp' = op
    /\ prev' = IF lastOp = op THEN "same" ELSE "other"

Unmade == {o \in Objects : ~objects[o].made}
\* the object a constructor call makes next
NextObject == CHOOSE o \in Unmade : \A u \in Unmade : o <= u

SetMaxPoolSize ==
    \E k \in PoolKeys, n \in 0..MaxPoolCap :
        /\ ApplyPool(setMaxPoolSize(Pools, k, n))
        /\ poolRun' = NoRun
        /\ NotePool("setMaxPoolSize")
        /\ UNCHANGED restOfPool

GetFromPool ==
    \E k \in PoolKeys :
        /\ Unmade # {}
        /\ ApplyPool(getFromPool(Pools, k, NextObject))
        /\ poolRun' = NoRun
        /\ NotePool("getFromPool")
        /\ UNCHANGED restOfPool

\* returnToPool(k, o) with a live object o of the caller: one it holds, or one
\* it constructs for the call (OptimizedBullet.initializePool)
ReturnToPool ==
    \E k \in PoolKeys, o \in Objects :
        /\ \/ objects[o].made /\ objects[o].destroys = 0
           \/ Unmade # {} /\ o = NextObject
        /\ LET pm == IF objects[o].made THEN Pools ELSE construct(Pools, o)
               r == returnToPool(pm, k, o)
               run == IF poolRun.key = k THEN poolRun ELSE NoRun
           IN /\ ApplyPool(r)
              /\ poolRun' = [key |-> k,
                             calls |-> IF run.calls > MaxPoolCap + 1 THEN run.calls
                                       ELSE run.calls + 1,
                             objs |-> run.objs \cup {o},
                             destroyed |-> run.destroyed + r.destroyed]
        /\ NotePool("returnToPool")
        /\ UNCHANGED restOfPool

ClearPool ==
    \E k \in PoolKeys :
        /\ ApplyPool(clearPool(Pools, k))
        /\ poolRun' = NoRun
        /\ NotePool("clearPool")
        /\ UNCHANGED restOfPool

\* Game.destroy(): clearAllPools()
ClearAllPools ==
    /\ ApplyPool(clearAllPools(Pools))
    /\ poolRun' = NoRun
    /\ NotePool("clearAllPools")
    /\ UNCHANGED restOfPool

\* returnToPool(k, o) by the holder of an object it got from the pool, which
\* the pool may have destroyed since (OptimizedBullet.deactivate)
ReturnHeld ==
    \E k \in PoolKeys, o \in Objects :
        /\ objects[o].made
        /\ objects[o].destroys < MaxDestroys
        /\ ApplyPool(returnToPool(Pools, k, o))
        /\ poolRun' = NoRun
        /\ NotePool("returnToPool")
        /\ UNCHANGED restOfPool

\* ---- OptimizedBullet ---------------------------------------------------------
\* OptimizedBullet.POOL_KEY
BulletPoolKey == "bullets"

\* "this.lifeTimer" of a bullet: null ("none"), a TimerEvent pending on the
\* clock ("armed") or one that has fired ("fired"); `stale` counts the pending
\* lifetime timers of the bullet that the field does not reference
NoBulletTimer == [lifeTimer |-> "none", stale |-> 0]

\* The pool manager and the bullets' timers as one record
Bullets == [pm |-> Pools, timers |-> bulletTimers]

\* "this.scene" of a bullet, which GameObject.destroy() clears
sceneReady(bs, o) == bs.pm.objects[o].destroys = 0

\* setupLifetime() that arms the new timer and leaves the one before pending
setupLifetimeNoCancel(bs, o) ==
    IF ~sceneReady(bs, o) THEN bs
    ELSE [bs EXCEPT !.timers[o].stale =
                        IF bs.timers[o].lifeTimer = "armed" THEN @ + 1 ELSE @,
                    !.timers[o].lifeTimer = "armed"]

\* setupLifetime(): lifeTimer.remove() and null, then a new delayedCall
setupLifetime(bs, o) ==
    LET a == [bs EXCEPT !.timers[o].lifeTimer = "none"]
    IN IF ~sceneReady(a, o) THEN a
       ELSE [a EXCEPT !.timers[o].lifeTimer = "armed"]

\* reset(x, y, direction, bulletType): without a scene the call is put off with
\* setTimeout, and the retry finds the scene of a destroyed bullet missing again
bulletReset(bs, o) ==
    IF ~sceneReady(bs, o) THEN bs
    ELSE LET a == setupLifetime(bs, o)
         IN [a EXCEPT !.pm.objects[o].active = TRUE, !.pm.objects[o].visible = TRUE]

\* deactivate(): cancels the timer, hides the bullet and returns it to the pool
deactivate(bs, o) ==
    LET a == [bs EXCEPT !.timers[o].lifeTimer = "none",
                        !.pm.objects[o].active = FALSE,
                        !.pm.objects[o].visible = FALSE]
    IN [a EXCEPT !.pm = returnToPool(a.pm, BulletPoolKey, o)]

hitTarget(bs, o) == deactivate(bs, o)

\* OptimizedBullet.fire(): getFromPool, then reset of the bullet it returned
fire(bs, fresh) ==
    LET g == getFromPool(bs.pm, BulletPoolKey, fresh)
    IN bulletReset([bs EXCEPT !.pm = g], g.result)

\* a lifetime timer of bullet o fires: the one lifeTimer references (own) or
\* one it does not; its callback runs deactivate()
expire(bs, o, own) ==
    deactivate(IF own THEN [bs EXCEPT !.timers[o].lifeTimer = "fired"]
               ELSE [bs EXCEPT !.timers[o].stale = @ - 1], o)

\* initializePool() for one bullet: constructed, hidden and returned
initializePool(bs, fresh) ==
    LET a == construct(bs.pm, fresh)
        b == [a EXCEPT !.objects[fresh].active = FALSE, !.objects[fresh].visible = FALSE]
    IN [bs EXCEPT !.pm = returnToPool(b, BulletPoolKey, fresh)]

ApplyBullets(bs) ==
    /\ ApplyPool(bs.pm)
    /\ bulletTimers' = bs.timers

\* what the bullets and their pool leave alone
restOfBullets == <<spawnerVars, hostVars, lastArg, threw, quiesced, emitted, regVars, gsVars, busVars, calcVars, poolRun>>

NoBulletRun == [obj |-> NullRef, reused |-> FALSE, wasActive |-> FALSE, own |-> FALSE]

\* Game.initializeObjectPools: the configured size of the bullets' pool
ConfigurePool ==
    \E n \in 1..MaxPoolCap :
        /\ ApplyBullets([Bullets EXCEPT !.pm = setMaxPoolSize(Bullets.pm, BulletPoolKey, n)])
        /\ bulletRun' = NoBulletRun
        /\ NotePool("configurePool")
        /\ UNCHANGED restOfBullets

\* the delayed call of initializePool() makes one bullet
InitializePool ==
    /\ Unmade # {}
    /\ ApplyBullets(initializePool(Bullets, NextObject))
    /\ bulletRun' = [NoBulletRun EXCEPT !.obj = NextObject]
    /\ NotePool("initializePool")
    /\ UNCHANGED restOfBullets

Fire ==
    /\ Unmade # {}
    /\ LET g == getFromPool(Pools, BulletPoolKey, NextObject)
       IN /\ ApplyBullets(fire(Bullets, NextObject))
          /\ bulletRun' = [NoBulletRun EXCEPT !.obj = g.result,
                                              !.reused = (g.result # NextObject)]
    /\ NotePool("fire")
    /\ UNCHANGED restOfBullets

\* the holder of a live bullet calls reset() on it again
ResetBullet ==
    \E o \in Objects :
        /\ objects[o].made /\ objects[o].active
        /\ ApplyBullets(bulletReset(Bullets, o))
        /\ bulletRun' = [NoBulletRun EXCEPT !.obj = o, !.wasActive = TRUE]
        /\ NotePool("resetBullet")
        /\ UNCHANGED restOfBullets

\* the overlap callback of the Game scene: the bullet is in the scene's group
\* and has its body whether it is active or not, until it is destroyed
HitTarget ==
    \E o \in Objects :
        /\ objects[o].made /\ objects[o].destroys = 0
        /\ ApplyBullets(hitTarget(Bullets, o))
        /\ bulletRun' = [NoBulletRun EXCEPT !.obj = o, !.wasActive = objects[o].active]
        /\ NotePool("hitTarget")
        /\ UNCHANGED restOfBullets

\* a pending lifetime timer of a bullet fires
LifetimeExpires ==
    \E o \in Objects, own \in BOOLEAN :
        /\ IF own THEN bulletTimers[o].lifeTimer = "armed" ELSE bulletTimers[o].stale > 0
        /\ ApplyBullets(expire(Bullets, o, own))
        /\ bulletRun' = [NoBulletRun EXCEPT !.obj = o, !.wasActive = objects[o].active,
                                            !.own = own]
        /\ NotePool("lifetimeExpires")
        /\ UNCHANGED restOfBullets

\* ---- GameStateManager -------------------------------------------------------
GameStates == {"menu", "loading", "playing", "paused", "game_over", "victory"}
ScoreCategories == {"items", "time", "kills"}
\* the categories a SCORE_UPDATE may name; "bonus" is one updateScore does not know
ScoreSources == ScoreCategories \cup {"bonus"}
StatNames == {"killCount", "itemsCollected", "damageDealt", "damageTaken"}

\* "this.session = null"; the fields of the record are those of GameSession
NoSession ==
    [exists |-> FALSE, startTime |-> 0, currentTime |-> 0, elapsedTime |-> 0,
     score |-> [total |-> 0, items |-> 0, time |-> 0, kills |-> 0],
     stats |-> [killCount |-> 0, itemsCollected |-> 0, damageDealt |-> 0, damageTaken |-> 0],
     difficulty |-> [multiplier |-> 0, level |-> 0]]

\* The manager's fields as one record; `now` is the clock it reads and
\* `changes` collects the SCENE_CHANGE events the operation emitted.  The
\* stateHistory array is written and never read, and is left out.
Gsm ==
    [currentState |-> currentState, previousState |-> previousState,
     session |-> session, now |-> now, changes |-> 0]

setState(gs, newState) ==
    IF newState = gs.currentState THEN gs
    ELSE [gs EXCEPT !.previousState = gs.currentState,
                    !.currentState = newState,
                    !.changes = @ + 1]

getState(gs) == gs.currentState
isPlaying(gs) == gs.currentState = "playing"

\* startNewSession() that keeps the counters of the session before
startNewSessionKeepsCounters(gs) ==
    [gs EXCEPT !.session.exists = TRUE,
               !.session.startTime = gs.now,
               !.session.currentTime = gs.now,
               !.session.elapsedTime = 0,
               !.session.difficulty = [multiplier |-> BaseMultiplier, level |-> BaseLevel]]

startNewSession(gs) ==
    [gs EXCEPT !.session =
        [exists |-> TRUE, startTime |-> gs.now, currentTime |-> gs.now, elapsedTime |-> 0,
         score |-> [total |-> 0, items |-> 0, time |-> 0, kills |-> 0],
         stats |-> [killCount |-> 0, itemsCollected |-> 0, damageDealt |-> 0, damageTaken |-> 0],
         difficulty |-> [multiplier |-> BaseMultiplier, level |-> BaseLevel]]]

updateSessionTime(gs) ==
    IF ~gs.session.exists \/ ~isPlaying(gs) THEN gs
    ELSE [gs EXCEPT !.session.currentTime = gs.now,
                    !.session.elapsedTime = gs.now - gs.session.startTime]

\* endSession(reason, data); the copy it makes into the event's data is not kept
endSession(gs) ==
    IF ~gs.session.exists THEN gs
    ELSE LET a == updateSessionTime(gs)
             b == [a EXCEPT !.session.score.time = a.session.elapsedTime \div MsPerSecond]
         IN [b EXCEPT !.session.score.total =
                 b.session.score.items + b.session.score.time + b.session.score.kills]

\* getSession(): the session, NoSession standing for null
getSession(gs) == gs.session

updateScore(gs, category, delta) ==
    IF ~gs.session.exists THEN gs
    ELSE IF category \in ScoreCategories
         THEN [gs EXCEPT !.session.score[category] = @ + delta]
         ELSE [gs EXCEPT !.session.score.total = @ + delta]

updateStats(gs, stat, delta) ==
    IF ~gs.session.exists THEN gs
    ELSE [gs EXCEPT !.session.stats[stat] = @ + delta]

\* the manager's handler of event e, as onInitialize registers it
gsHandler(gs, e, data) ==
    CASE e = "GAME_START" -> setState(startNewSession(gs), "playing")
      [] e = "GAME_OVER" -> setState(endSession(gs), "game_over")
      [] e = "GAME_VICTORY" -> setState(endSession(gs), "victory")
      [] e = "GAME_PAUSE" -> IF gs.currentState = "playing" THEN setState(gs, "paused") ELSE gs
      [] e = "GAME_RESUME" -> IF gs.currentState = "paused" THEN setState(gs, "playing") ELSE gs
      [] e = "SCORE_UPDATE" -> updateScore(gs, data.source, data.delta)
      [] e = "ENEMY_DEATH" -> updateStats(gs, "killCount", 1)
      [] e = "ITEM_COLLECT" -> updateStats(gs, "itemsCollected", 1)
      [] e = "PLAYER_DAMAGE" -> updateStats(gs, "damageTaken", data.damage)

\* eventBus.emit(e, data): every handler set registered so far runs its handler
RECURSIVE gsDeliver(_, _, _, _)
gsDeliver(gs, e, data, n) ==
    IF n = 0 THEN gs ELSE gsDeliver(gsHandler(gs, e, data), e, data, n - 1)

\* GameStateManager.onCleanup
gsOnCleanup(gs) ==
    [gs EXCEPT !.currentState = "menu", !.previousState = "menu", !.session = NoSession]

ApplyGsm(gs) ==
    /\ currentState' = gs.currentState
    /\ previousState' = gs.previousState
    /\ session' = gs.session

\* what the GameStateManager leaves alone
restOfGsm == <<spawnerVars, hostVars, lastArg, threw, quiesced, emitted, regVars, poolVars, busVars, calcVars, bulletVars>>

NoteGsm(op) ==
    /\ lastOp' = op
    /\ prev' = "other"

GsmEvents ==
    {"GAME_START", "GAME_OVER", "GAME_VICTORY", "GAME_PAUSE", "GAME_RESUME",
     "SCORE_UPDATE", "ENEMY_DEATH", "ITEM_COLLECT", "PLAYER_DAMAGE"}

\* the data an emitter of e passes
EventData(e) ==
    CASE e = "SCORE_UPDATE" -> [source : ScoreSources, delta : 1..MaxDelta]
      [] e = "PLAYER_DAMAGE" -> [damage : 1..MaxDelta]
      [] OTHER -> {[none |-> TRUE]}

\* the events that add to the counters of the session
CountingEvents == {"SCORE_UPDATE", "ENEMY_DEATH", "ITEM_COLLECT", "PLAYER_DAMAGE"}

\* nothing has been sent
NoSent ==
    [items |-> 0, time |-> 0, kills |-> 0, other |-> 0,
     killCount |-> 0, itemsCollected |-> 0, damageTaken |-> 0]

\* what has been sent, after e with its data has been
sendCount(s, e, data) ==
    CASE e = "SCORE_UPDATE" ->
             IF data.source \in ScoreCategories
             THEN [s EXCEPT ![data.source] = @ + data.delta]
             ELSE [s EXCEPT !.other = @ + data.delta]
      [] e = "ENEMY_DEATH" -> [s EXCEPT !.killCount = @ + 1]
      [] e = "ITEM_COLLECT" -> [s EXCEPT !.itemsCollected = @ + 1]
      [] e = "PLAYER_DAMAGE" -> [s EXCEPT !.damageTaken = @ + data.damage]
      [] OTHER -> s

\* such an event is sent while what was sent leaves room for it
WithinCount(e, s) ==
    e \in CountingEvents =>
        s.items + s.time + s.kills + s.other
        + s.killCount + s.itemsCollected + s.damageTaken <= MaxCount

\* BaseManager.initialize of the GameStateManager: onInitialize registers
\* one more set of handlers on the bus
GsmInitialize ==
    /\ gsInitialized \/ gsHandlers < MaxHandlerSets
    /\ gsInitialized' = TRUE
    /\ gsHandlers' = IF gsInitialized THEN gsHandlers ELSE gsHandlers + 1
    /\ NoteGsm("gsInitialize")
    /\ UNCHANGED <<currentState, previousState, session, now, sent, restOfGsm>>

\* BaseManager.cleanup of the GameStateManager; its handlers stay on the bus
GsmCleanup ==
    /\ ApplyGsm(gsOnCleanup(Gsm))
    /\ gsInitialized' = FALSE
    /\ sent' = NoSent
    /\ NoteGsm("gsCleanup")
    /\ UNCHANGED <<gsHandlers, now, restOfGsm>>

\* some component emits e on the bus
GsmEvent ==
    \E e \in GsmEvents :
        \E data \in EventData(e) :
            LET r == gsDeliver(Gsm, e, data, gsHandlers)
            IN /\ sent' = IF e = "GAME_START" /\ gsHandlers > 0 THEN NoSent
                          ELSE IF session.exists THEN sendCount(sent, e, data)
                          ELSE sent
               /\ WithinCount(e, sent')
               /\ ApplyGsm(r)
               /\ NoteGsm(e)
               /\ UNCHANGED <<gsInitialized, gsHandlers, now, restOfGsm>>

UpdateSessionTime ==
    /\ ApplyGsm(updateSessionTime(Gsm))
    /\ NoteGsm("updateSessionTime")
    /\ UNCHANGED <<gsInitialized, gsHandlers, now, sent, restOfGsm>>

\* the instants the clock is read at: the seconds and the millisecond before each
TimePoints ==
    {x \in 0..(MaxTime * MsPerSecond) : x % MsPerSecond \in {0, MsPerSecond - 1}}

ClockAdvance ==
    /\ \E x \in TimePoints : x > now /\ now' = x
    /\ NoteGsm("clock")
    /\ UNCHANGED <<currentState, previousState, session, gsInitialized, gsHandlers, sent, restOfGsm>>

\* ---- EventBus ---------------------------------------------------------------
BusEvents == {"enemy:spawn", "enemy:death"}
\* the functions that callers pass; "boom" throws when it is called
Functions == {"f", "boom"}
Throws(fn) == fn = "boom"
\* functions that call the bus when they are called: off(e, f) of the event
\* they are called for, removeAllListeners(e), and emit(e)
Reentrant == {"offF", "clear", "again"}

\* A registered callback: the function itself (once = NullRef), or the wrapper
\* that the once() call number `once` made around it.  Two wrappers around the
\* same function are different callbacks.
Plain(fn) == [fn |-> fn, once |-> NullRef]
Wrapper(fn, w) == [fn |-> fn, once |-> w]

\* The bus as one record; an operation collects in `delivered` the callbacks it
\* invoked, in `caught` the errors it caught, in `threw` whether it threw.  It
\* also collects, per event, the Sets that it deleted from the map with their
\* members at that time (`dropped`) and the callbacks it unregistered (`gone`);
\* `late` tells that it invoked a callback it had unregistered before, and
\* `depth` counts the emit() calls that are in progress around a callback.
Bus ==
    [listeners |-> listeners, onceMade |-> onceMade, onceCalls |-> onceCalls,
     delivered |-> <<>>, caught |-> 0, threw |-> FALSE,
     dropped |-> [e \in BusEvents |-> <<>>], gone |-> [e \in BusEvents |-> {}],
     late |-> FALSE, depth |-> 0]

\* Set.has
Has(s, cb) == \E i \in 1..Len(s) : s[i] = cb

\* the members of a Set
Members(s) == {s[i] : i \in 1..Len(s)}

\* on() that pushes to an array
busOnPush(b, e, cb) == [b EXCEPT !.listeners[e] = Append(@, cb)]

\* on(): Set.add keeps insertion order and adds a member once
busOn(b, e, cb) ==
    IF Has(b.listeners[e], cb) THEN b
    ELSE [b EXCEPT !.listeners[e] = Append(@, cb)]

\* off() that drops every callback of the event
busOffAll(b, e, cb) == [b EXCEPT !.listeners[e] = <<>>]

\* off(): Set.delete; the map entry of an event left without callbacks is
\* deleted, which reads the same as an empty one
busOff(b, e, cb) ==
    IF ~Has(b.listeners[e], cb) THEN b
    ELSE LET left == SelectSeq(b.listeners[e], LAMBDA x : x # cb)
         IN [b EXCEPT !.listeners[e] = left,
                      !.gone[e] = @ \cup {cb},
                      !.dropped[e] = IF left = <<>> THEN Append(@, <<>>) ELSE @]

\* once(): registers a new wrapper around fn
busOnce(b, e, fn) ==
    busOn([b EXCEPT !.onceMade = @ + 1], e, Wrapper(fn, b.onceMade + 1))

\* the absent argument of removeAllListeners()
NoEvent == ""

\* Map.delete of the entry of event x: the Set keeps its members
dropEntry(b, x) ==
    IF b.listeners[x] = <<>> THEN b
    ELSE [b EXCEPT !.listeners[x] = <<>>,
                   !.gone[x] = @ \cup Members(b.listeners[x]),
                   !.dropped[x] = Append(@, b.listeners[x])]

RECURSIVE dropEntries(_, _)
dropEntries(b, events) ==
    IF events = {} THEN b
    ELSE LET x == CHOOSE y \in events : TRUE
         IN dropEntries(dropEntry(b, x), events \ {x})

\* removeAllListeners() that clears the whole map whatever its argument
removeAllListenersOfAll(b, e) == dropEntries(b, BusEvents)

\* removeAllListeners(event?): deletes the map entry of the event, or clears
\* the map when no event is given
removeAllListeners(b, e) ==
    IF e # NoEvent THEN dropEntry(b, e)
    ELSE dropEntries(b, BusEvents)

RECURSIVE emitFrom(_, _, _, _)

\* the body of the function fn, called for event e
run(b, e, fn) ==
    CASE Throws(fn) -> [b EXCEPT !.threw = TRUE]
      [] fn = "offF" -> busOff(b, e, Plain("f"))
      [] fn = "clear" -> removeAllListeners(b, e)
      [] fn = "again" ->
             IF b.depth > MaxNesting THEN b
             ELSE emitFrom(b, e, b.listeners[e], Len(b.dropped[e]))
      [] OTHER -> b

\* one callback is called: a plain function runs; a wrapper runs its function
\* and then, unless that threw, removes itself
invoke(b, e, cb) ==
    LET a == [b EXCEPT !.delivered = Append(@, cb),
                       !.late = @ \/ cb \in b.gone[e],
                       !.onceCalls = IF cb.once = NullRef THEN @
                                     ELSE [@ EXCEPT ![cb.once] =
                                              IF @ < MaxCalls THEN @ + 1 ELSE @]]
        r == run(a, e, cb.fn)
    IN IF r.threw THEN r
       ELSE IF cb.once = NullRef THEN r
       ELSE busOff(r, e, cb)

\* the members of the Set that an emit() of e iterates, which was the map's
\* entry when `g` Sets of e had been dropped
iterated(b, e, g) ==
    IF Len(b.dropped[e]) > g THEN b.dropped[e][g + 1] ELSE b.listeners[e]

\* emit() without the try / catch: the first error ends it
RECURSIVE emitFromNoCatch(_, _, _, _)
emitFromNoCatch(b, e, rest, g) ==
    IF rest = <<>> \/ b.threw THEN b
    ELSE IF ~Has(iterated(b, e, g), Head(rest)) THEN emitFromNoCatch(b, e, Tail(rest), g)
    ELSE emitFromNoCatch(invoke(b, e, Head(rest)), e, Tail(rest), g)

\* Set.forEach over the callbacks of e: a callback deleted from the Set before
\* its turn is not visited; each call is wrapped in try / catch
emitFrom(b, e, rest, g) ==
    IF rest = <<>> THEN b
    ELSE IF ~Has(iterated(b, e, g), Head(rest)) THEN emitFrom(b, e, Tail(rest), g)
    ELSE LET c == invoke([b EXCEPT !.depth = @ + 1], e, Head(rest))
             r == [c EXCEPT !.depth = b.depth]
         IN emitFrom(IF r.threw THEN [r EXCEPT !.threw = FALSE, !.caught = @ + 1] ELSE r,
                     e, Tail(rest), g)

\* emit() that visits the callbacks last to first
busEmitBackwards(b, e) ==
    LET s == b.listeners[e]
    IN emitFrom(b, e, [i \in 1..Len(s) |-> s[Len(s) + 1 - i]], Len(b.dropped[e]))

busEmit(b, e) == emitFrom(b, e, b.listeners[e], Len(b.dropped[e]))

ApplyBus(b) ==
    /\ listeners' = b.listeners
    /\ onceMade' = b.onceMade
    /\ onceCalls' = b.onceCalls
    /\ threw' = b.threw

\* what the bus leaves alone
restOfBus == <<spawnerVars, hostVars, lastArg, quiesced, emitted, regVars, poolVars, gsVars, calcVars, bulletVars>>

NoteBus(op, e, fn) ==
    /\ lastOp' = op
    /\ prev' = "other"
    /\ busCall' = [event |-> e,
                    known |-> IF fn \in Functions THEN Has(listeners[e], Plain(fn))
                              ELSE listeners' # listeners]

HasRoom(e) == Len(listeners[e]) < MaxBusListeners

BusOn ==
    \E e \in BusEvents, fn \in Functions :
        /\ HasRoom(e) \/ Has(listeners[e], Plain(fn))
        /\ ApplyBus(busOn(Bus, e, Plain(fn)))
        /\ NoteBus("on", e, fn)
        /\ UNCHANGED <<delivered, caught, restOfBus>>

BusOff ==
    \E e \in BusEvents, fn \in Functions :
        /\ ApplyBus(busOff(Bus, e, Plain(fn)))
        /\ NoteBus("off", e, fn)
        /\ UNCHANGED <<delivered, caught, restOfBus>>

BusOnce ==
    \E e \in BusEvents, fn \in Functions :
        /\ HasRoom(e)
        /\ onceMade < MaxOnce
        /\ ApplyBus(busOnce(Bus, e, fn))
        /\ NoteBus("once", e, fn)
        /\ UNCHANGED <<delivered, caught, restOfBus>>

BusEmit ==
    \E e \in BusEvents :
        LET r == busEmit(Bus, e)
        IN /\ ApplyBus(r)
           /\ delivered' = Len(r.delivered)
           /\ caught' = r.caught
           /\ NoteBus("emit", e, "")
           /\ UNCHANGED restOfBus

\* on() with a function that calls the bus
BusOnReentrant ==
    \E e \in BusEvents, fn \in Reentrant :
        /\ HasRoom(e) \/ Has(listeners[e], Plain(fn))
        /\ ApplyBus(busOn(Bus, e, Plain(fn)))
        /\ NoteBus("on", e, fn)
        /\ UNCHANGED <<delivered, caught, restOfBus>>

\* once() with a function that emits the event again
BusOnceReentrant ==
    \E e \in BusEvents :
        /\ HasRoom(e)
        /\ onceMade < MaxOnce
        /\ ApplyBus(busOnce(Bus, e, "again"))
        /\ NoteBus("once", e, "again")
        /\ UNCHANGED <<delivered, caught, restOfBus>>

BusRemoveAll ==
    \E e \in BusEvents \cup {NoEvent} :
        /\ ApplyBus(removeAllListeners(Bus, e))
        /\ NoteBus("removeAllListeners", e, "")
        /\ UNCHANGED <<delivered, caught, restOfBus>>

\* ---- EnemySpawner.getRandomEnemyType ---------------------------------------
enemyWeights ==
    << [type |-> "slime", weight |-> 50],
       [type |-> "flying_creature", weight |-> 30],
       [type |-> "goblin", weight |-> 20] >>

RECURSIVE SumWeights(_)
SumWeights(items) ==
    IF items = <<>> THEN 0 ELSE Head(items).weight + SumWeights(Tail(items))

totalWeight == SumWeights(enemyWeights)

\* Math.random() * totalWeight, counted in steps of 1 / Resolution
Draws == 0..(totalWeight * Resolution - 1)

\* the loop with "random < 0" as its test
RECURSIVE walkStrict(_, _)
walkStrict(r, items) ==
    IF items = <<>> THEN "slime"
    ELSE LET left == r - Head(items).weight * Resolution
         IN IF left < 0 THEN Head(items).type ELSE walkStrict(left, Tail(items))

\* the loop over the table: random -= item.weight; if (random <= 0) return
RECURSIVE walk(_, _)
walk(r, items) ==
    IF items = <<>> THEN "slime"
    ELSE LET left == r - Head(items).weight * Resolution
         IN IF left <= 0 THEN Head(items).type ELSE walk(left, Tail(items))

getRandomEnemyType(r) == walk(r, enemyWeights)

\* what the calculations leave alone
restOfCalc == <<spawnerVars, hostVars, histVars, regVars, poolVars, gsVars, busVars, bulletVars>>

GetRandomEnemyType ==
    /\ enemyType' = getRandomEnemyType(random)
    /\ UNCHANGED <<random, spawnCase, spawnPos, gameElapsedTime, difficultyMultiplier, restOfCalc>>

\* ---- EnemySpawner.getRandomSpawnPosition -----------------------------------
\* camera.worldView of the scenario and of a small window
Views ==
    { [left |-> -500, right |-> 500, top |-> -400, bottom |-> 400],
      [left |-> 0, right |-> 200, top |-> 0, bottom |-> 100] }

\* player.x, player.y
Players == { [x |-> 0, y |-> 0], [x |-> 0, y |-> 400], [x |-> 100, y |-> 50] }

\* spawnDistance: the default, and a larger one set by updateSpawnConfig()
SpawnDistances == {DefaultSpawnDistance, 1000}

\* Phaser.Math.Between(min, max): the ends of the range and points between them
Between(min, max) == {min + (k * (max - min)) \div Samples : k \in 0..Samples}

\* the inputs of one call: the view, the player, spawnDistance, the four
\* Between() values and Math.random() of GetRandom in steps of 1 / RandomSteps
Cases ==
    UNION {
        { [view |-> v, player |-> p, spawnDistance |-> d,
           xTop |-> xt, xBottom |-> xb, yLeft |-> yl, yRight |-> yr, u |-> u] :
              p \in Players, d \in SpawnDistances,
              xt \in Between(v.left - Margin, v.right + Margin),
              xb \in Between(v.left - Margin, v.right + Margin),
              yl \in Between(v.top - Margin, v.bottom + Margin),
              yr \in Between(v.top - Margin, v.bottom + Margin),
              u \in 0..(RandomSteps - 1) } : v \in Views }

NoCase ==
    [view |-> [left |-> 0, right |-> 0, top |-> 0, bottom |-> 0],
     player |-> [x |-> 0, y |-> 0], spawnDistance |-> 0,
     xTop |-> 0, xBottom |-> 0, yLeft |-> 0, yRight |-> 0, u |-> 0]

NoPos == [chosen |-> FALSE, x |-> 0, y |-> 0]

\* the four candidates: top, bottom, left and right edge
candidates(c) ==
    << [x |-> c.xTop, y |-> c.view.top - Margin],
       [x |-> c.xBottom, y |-> c.view.bottom + Margin],
       [x |-> c.view.left - Margin, y |-> c.yLeft],
       [x |-> c.view.right + Margin, y |-> c.yRight] >>

\* Phaser.Math.Distance.Between(pos, player) >= spawnDistance, on the squares
FarEnough(pos, c) ==
    (pos.x - c.player.x) * (pos.x - c.player.x)
        + (pos.y - c.player.y) * (pos.y - c.player.y)
    >= c.spawnDistance * c.spawnDistance

\* a filter that keeps every candidate
validCandidatesAll(c) == candidates(c)

\* candidates.filter(distance >= spawnDistance)
validCandidates(c) == SelectSeq(candidates(c), LAMBDA pos : FarEnough(pos, c))

finalCandidates(c) ==
    IF Len(validCandidates(c)) > 0 THEN validCandidates(c) ELSE candidates(c)

\* Phaser.Utils.Array.GetRandom: array[floor(Math.random() * length)]
GetRandom(array, u) == array[(u * Len(array)) \div RandomSteps + 1]

getRandomSpawnPosition(c) ==
    LET pos == GetRandom(finalCandidates(c), c.u)
    IN [chosen |-> TRUE, x |-> pos.x, y |-> pos.y]

GetRandomSpawnPosition ==
    /\ spawnPos' = getRandomSpawnPosition(spawnCase)
    /\ UNCHANGED <<spawnCase, random, enemyType, gameElapsedTime, difficultyMultiplier, restOfCalc>>

\* ---- Game.updateEnemyDifficulty ---------------------------------------------
\* this.time.now - this.gameStartTime at a timer tick, in milliseconds: the
\* first and the last millisecond of every second
ElapsedTimes ==
    {s * MsPerSecond + d : s \in 0..MaxSeconds, d \in {0, MsPerSecond - 1}}

Min(a, b) == IF a <= b THEN a ELSE b

\* the multiplier without Math.min
computeMultiplierUncapped(elapsed) ==
    DifficultyBase + ((elapsed \div MsPerSecond) \div DifficultyWindow) * DifficultyStep

\* Math.min(1 + Math.floor(elapsedSeconds / 30) * 0.1, 2.0), in tenths
computeMultiplier(elapsed) ==
    LET elapsedSeconds == elapsed \div MsPerSecond
    IN Min(DifficultyBase + (elapsedSeconds \div DifficultyWindow) * DifficultyStep,
           DifficultyCap)

\* BattleEnemy.setDifficultyMultiplier on the live enemy
setDifficultyMultiplier(multiplier) == multiplier

\* updateEnemyDifficulty(): the multiplier of the live enemy afterwards
updateEnemyDifficulty(elapsed) == setDifficultyMultiplier(computeMultiplier(elapsed))

\* the multiplier is recomputed at the elapsed time that is recorded
UpdateEnemyDifficulty ==
    /\ difficultyMultiplier' = updateEnemyDifficulty(gameElapsedTime)
    /\ UNCHANGED <<gameElapsedTime, random, enemyType, spawnCase, spawnPos, restOfCalc>>

\* updateTimer(): a later tick of the 100 ms timer
UpdateTimer ==
    \E t \in ElapsedTimes :
        /\ t > gameElapsedTime
        /\ gameElapsedTime' = t
        /\ difficultyMultiplier' = updateEnemyDifficulty(t)
        /\ UNCHANGED <<random, enemyType, spawnCase, spawnPos, restOfCalc>>

\* ---- specifications -------------------------------------------------------
InitRegistry ==
    /\ instances = [k \in ManagerTypes |-> NullRef]
    /\ made = 0
    /\ lastGot = [k \in ManagerTypes |-> NullRef]
    /\ instCleanups = [i \in 1..MaxInstances |-> 0]

InitPool ==
    /\ pools = [k \in PoolKeys |-> NoPool]
    /\ maxPoolSizes = [k \in PoolKeys |-> NullRef]
    /\ objects = [o \in Objects |-> NoObject]
    /\ poolRun = NoRun

InitBullets ==
    /\ bulletTimers = [o \in Objects |-> NoBulletTimer]
    /\ bulletRun = NoBulletRun

InitGsm ==
    /\ currentState = "menu"
    /\ previousState = "menu"
    /\ session = NoSession
    /\ gsInitialized = FALSE
    /\ gsHandlers = 0
    /\ now = 0
    /\ sent = NoSent

InitBus ==
    /\ listeners = [e \in BusEvents |-> <<>>]
    /\ onceMade = 0
    /\ onceCalls = [w \in 1..MaxOnce |-> 0]
    /\ delivered = 0
    /\ caught = 0
    /\ busCall = [event |-> "", known |-> FALSE]

InitSpawner ==
    /\ scene = NullRef
    /\ initialized = FALSE
    /\ enemies = NoGroup
    /\ player = FALSE
    /\ spawnTimer = NoTimer
    /\ maxEnemies = MaxCap
    /\ loops = [s \in Scenes |-> 0]
    /\ shots = [s \in Scenes |-> 0]
    /\ shutdownListeners = 0
    /\ emitted = 0
    /\ threw = FALSE
    /\ lastOp = "none"
    /\ lastArg = NullRef
    /\ prev = "other"
    /\ quiesced = FALSE

\* no draw has been made
InitEnemyType ==
    /\ random = 0
    /\ enemyType = "none"

\* no position has been asked for
InitSpawnPos ==
    /\ spawnCase = NoCase
    /\ spawnPos = NoPos

\* the timer has just been started and the enemy just constructed
InitDifficulty ==
    /\ gameElapsedTime = 0
    /\ difficultyMultiplier = DifficultyBase

InitCalc ==
    /\ InitEnemyType
    /\ InitSpawnPos
    /\ InitDifficulty

\* the managers as constructed, with every host scene alive
InitManagers ==
    /\ InitSpawner
    /\ InitRegistry
    /\ InitPool
    /\ InitGsm
    /\ InitBus
    /\ InitBullets
    /\ scenes = [s \in Scenes |-> "active"]

\* The spawner under any sequence of calls of its public interface that the
\* repository makes, and of host callbacks, with every host scene alive.
Init ==
    /\ InitManagers
    /\ InitCalc

Next ==
    \/ Initialize
    \/ ForceReinitialize
    \/ Cleanup
    \/ Reset
    \/ SetPlayer
    \/ Start
    \/ Stop
    \/ TimerTick
    \/ DelayedSpawn
    \/ EnemyDies

Spec == Init /\ [][Next]_vars

\* The same with updateSpawnConfig(), which the repository defines and never calls.
NextConfig ==
    \/ Initialize
    \/ ForceReinitialize
    \/ Cleanup
    \/ Reset
    \/ SetPlayer
    \/ Start
    \/ Stop
    \/ TimerTick
    \/ DelayedSpawn
    \/ EnemyDies
    \/ UpdateSpawnConfig

SpecConfig == Init /\ [][NextConfig]_vars

\* The same with the host-shutdown event, which the repository subscribes to
\* and never emits.
NextShutdown ==
    \/ Initialize
    \/ ForceReinitialize
    \/ Cleanup
    \/ Reset
    \/ SetPlayer
    \/ Start
    \/ Stop
    \/ TimerTick
    \/ DelayedSpawn
    \/ EnemyDies
    \/ SceneShutdown

SpecShutdown == Init /\ [][NextShutdown]_vars

\* start(), stop() and updateSpawnConfig() in any order on a spawner that is
\* initialized and given its player, with the clocks running.
NextTimers ==
    \/ Initialize
    \/ SetPlayer
    \/ StartAgain
    \/ Stop
    \/ Reconfigure
    \/ TimerTick
    \/ DelayedSpawn
    \/ EnemyDies

SpecTimers == Init /\ [][NextTimers]_vars

\* The spawner's lifecycle with a live group that can turn faulty.
NextFault ==
    \/ Initialize
    \/ ForceReinitialize
    \/ Cleanup
    \/ Reset
    \/ SetPlayer
    \/ Start
    \/ DelayedSpawn
    \/ GroupFault

SpecFault == Init /\ [][NextFault]_vars

\* The application: the menu starts Game scenes, a Game scene drives the spawner
\* and is torn down by restartGame(), victory() or destroy().
InitGame ==
    /\ InitSpawner
    /\ InitRegistry
    /\ InitPool
    /\ InitGsm
    /\ InitBus
    /\ InitBullets
    /\ InitCalc
    /\ scenes = [s \in Scenes |-> IF s = MenuScene THEN "active" ELSE "none"]

NextGame ==
    \/ GameCreate
    \/ RestartGame
    \/ Victory
    \/ FadeComplete
    \/ GameDestroy
    \/ TimerTick
    \/ DelayedSpawn
    \/ EnemyDies

SpecGame == InitGame /\ [][NextGame]_vars

\* The registry under any sequence of getInstance() / resetInstance() calls.
NextRegistry ==
    \/ \E k \in ManagerTypes : GetInstance(k)
    \/ \E k \in ManagerTypes : ResetInstance(k)

SpecRegistry == Init /\ [][NextRegistry]_vars

\* The pool manager under any sequence of calls of its interface.
NextPool ==
    \/ SetMaxPoolSize
    \/ GetFromPool
    \/ ReturnToPool
    \/ ClearPool

SpecPool == Init /\ [][NextPool]_vars

\* The pool manager with holders that return what they hold after the pools
\* were cleared.
NextPoolClear ==
    \/ GetFromPool
    \/ ReturnHeld
    \/ ClearPool
    \/ ClearAllPools

SpecPoolClear == Init /\ [][NextPoolClear]_vars

\* The GameStateManager under any sequence of the events it subscribes to, of
\* its lifecycle calls and of clock readings.
NextSession ==
    \/ GsmInitialize
    \/ GsmCleanup
    \/ GsmEvent
    \/ UpdateSessionTime
    \/ ClockAdvance

SpecSession == Init /\ [][NextSession]_vars

\* getRandomEnemyType() for every draw
InitSelect ==
    /\ InitManagers
    /\ InitSpawnPos
    /\ InitDifficulty
    /\ random \in Draws
    /\ enemyType = "none"

NextSelect ==
    \/ GetRandomEnemyType

SpecSelect == InitSelect /\ [][NextSelect]_vars

\* getRandomSpawnPosition() for every case
InitPosition ==
    /\ InitManagers
    /\ InitEnemyType
    /\ InitDifficulty
    /\ spawnCase \in Cases
    /\ spawnPos = NoPos

NextPosition ==
    \/ GetRandomSpawnPosition

SpecPosition == InitPosition /\ [][NextPosition]_vars

\* updateEnemyDifficulty() at every elapsed time, on an enemy constructed at
\* any of them
InitElapsed ==
    /\ InitManagers
    /\ InitEnemyType
    /\ InitSpawnPos
    /\ gameElapsedTime \in ElapsedTimes
    /\ difficultyMultiplier = DifficultyBase

NextDifficulty ==
    \/ UpdateEnemyDifficulty
    \/ UpdateTimer

SpecDifficulty == InitElapsed /\ [][NextDifficulty]_vars

\* The bullets of the Game scene: its pool is configured and filled, bullets
\* are fired, re-aimed, hit targets and run out of lifetime.
NextBullet ==
    \/ ConfigurePool
    \/ InitializePool
    \/ Fire
    \/ ResetBullet
    \/ HitTarget
    \/ LifetimeExpires

SpecBullet == Init /\ [][NextBullet]_vars

\* The event bus under any sequence of calls of its interface.
NextBus ==
    \/ BusOn
    \/ BusOff
    \/ BusOnce
    \/ BusEmit
    \/ BusRemoveAll

SpecBus == Init /\ [][NextBus]_vars

\* The event bus with callbacks that call it back while an emit() is going on.
NextReentrant ==
    \/ BusOn
    \/ BusOnReentrant
    \/ BusOnce
    \/ BusOnceReentrant
    \/ BusEmit

SpecReentrant == Init /\ [][NextReentrant]_vars

\* ---- properties -----------------------------------------------------------
\* the program's fields of a state record, without what a handler collected
Fields(st) ==
    [scene |-> st.scene, initialized |-> st.initialized, enemies |-> st.enemies,
     player |-> st.player, spawnTimer |-> st.spawnTimer, maxEnemies |-> st.maxEnemies,
     scenes |-> st.scenes, loops |-> st.loops, shots |-> st.shots,
     shutdownListeners |-> st.shutdownListeners]

\* C1: isInitialized() is true exactly when the most recent of initialize(),
\* forceReinitialize() and cleanup() was initialize() or forceReinitialize();
\* whenever it is true the scene is non-null.  A call of anything else leaves
\* it as it was (reset() is not one of the three and is left open).
C1_InitializedTracksLastCall ==
    [][/\ lastOp' \in {"initialize", "forceReinitialize"} => isInitialized(State)'
       /\ lastOp' = "cleanup" => ~isInitialized(State)'
       /\ lastOp' \notin {"initialize", "forceReinitialize", "cleanup", "reset"}
              => (isInitialized(State)' = isInitialized(State))
       /\ isInitialized(State)' => scene' # NullRef]_vars

\* C2: forceReinitialize(scene), from any lifecycle state, runs the teardown
\* hook once and then the setup hook once, does not throw, and leaves the
\* manager Initialized and bound to the given scene.
C2_ForceReinitializeLeavesInitialized ==
    [][lastOp' = "forceReinitialize" =>
          /\ forceReinitialize(State, lastArg').hooks = <<"onCleanup", "onInitialize">>
          /\ ~threw'
          /\ scene' = lastArg'
          /\ isInitialized(State)']_vars

\* C3: initialize(scene2) on an Initialized manager changes nothing: the setup
\* hook does not run, the scene stays, no SCENE_SHUTDOWN listener is added.
C3_InitializeOnInitializedIsNoOp ==
    [][(lastOp' = "initialize" /\ isInitialized(State)) =>
          /\ initialize(State, lastArg').hooks = <<>>
          /\ ~threw'
          /\ UNCHANGED <<spawnerVars, hostVars>>]_vars

\* initialize(s2) has returned on a manager that stays bound to another scene
C3_Witness ==
    /\ lastOp = "initialize"
    /\ isInitialized(State)
    /\ lastArg # scene
    /\ shutdownListeners = 1

\* C4: cleanup() is idempotent and never throws: the first call removes the
\* referenced timer at most once and destroys each live enemy once, a second
\* call right after removes and destroys nothing more and leaves the same
\* state; after cleanup() the manager is Uninitialized with a null scene,
\* no referenced timer and no live enemy.
C4_CleanupIdempotent ==
    LET a == cleanup(State)
        b == cleanup(a)
    IN /\ ~a.threw /\ ~b.threw
       /\ a.removed = (IF spawnTimer.set THEN 1 ELSE 0)
       /\ a.destroyed = getEnemyCount(State)
       /\ b.removed = a.removed
       /\ b.destroyed = a.destroyed
       /\ Fields(b) = Fields(a)
       /\ ~isInitialized(a) /\ a.scene = NullRef
       /\ lastOp = "cleanup" =>
              /\ ~threw
              /\ ~initialized /\ scene = NullRef
              /\ spawnTimer = NoTimer
              /\ getEnemyCount(State) = 0

\* cleanup() has run twice in a row after a session had been started
C4_Witness ==
    /\ lastOp = "cleanup"
    /\ prev = "same"
    /\ Sum(shots, Scenes) > 0

\* C5: where isInitialized() is false, getScene(), start() and spawnEnemy()
\* throw; stated for the states immediately after reset().
C5_UninitializedAfterResetThrows ==
    (lastOp = "reset" /\ ~isInitialized(State)) =>
        /\ getSceneThrows(State)
        /\ start(State).threw
        /\ spawnEnemy(State).threw

\* C6: the registry holds at most one instance per manager type: the instance
\* a type's getInstance() returned is the one registered for it, a later
\* getInstance() of the type (no resetInstance() between) returns the same
\* one, and two types never share an instance.
C6_OneInstancePerType ==
    [][/\ \A k \in ManagerTypes :
              (lastGot[k] # NullRef /\ lastGot'[k] # NullRef) => lastGot'[k] = lastGot[k]
       /\ \A k \in ManagerTypes :
              lastGot'[k] # NullRef => instances'[className(k)] = lastGot'[k]
       /\ \A k1, k2 \in ManagerTypes :
              (k1 # k2 /\ lastGot'[k1] # NullRef) => lastGot'[k1] # lastGot'[k2]]_vars

\* getInstance() ran twice in a row and one instance was constructed
C6_Witness ==
    /\ lastOp = "getInstance"
    /\ prev = "same"
    /\ made = 1
    /\ \E k \in ManagerTypes : lastGot[k] # NullRef

\* C7: reset() never throws; after it the referenced timer is removed from its
\* clock and forgotten, no enemy is live, the player is cleared and the manager
\* is not initialized.  An initialize(scene) right after it runs the setup
\* hook and leaves the manager Initialized on that scene with an empty group
\* and no timer.
C7_ResetThenInitialize ==
    [][/\ lastOp' = "reset" =>
              /\ ~threw'
              /\ spawnTimer' = NoTimer
              /\ (spawnTimer.set /\ spawnTimer.armed) =>
                     loops'[spawnTimer.scene] = loops[spawnTimer.scene] - 1
              /\ getEnemyCount(State)' = 0
              /\ ~player'
              /\ ~isInitialized(State)'
       /\ (lastOp = "reset" /\ lastOp' = "initialize") =>
              /\ initialize(State, lastArg').hooks = <<"onInitialize">>
              /\ ~threw'
              /\ isInitialized(State)' /\ scene' = lastArg'
              /\ enemies'.status = "valid" /\ enemies'.size = 0
              /\ spawnTimer' = NoTimer]_vars

\* initialize() has run right after reset(), callbacks of the session before
\* still pending
C7_Witness ==
    /\ lastOp = "initialize"
    /\ prev = "reset"
    /\ isInitialized(State)
    /\ Sum(shots, Scenes) > 0

\* C8: the number of live enemies never exceeds the configured maxEnemies.
C8_LiveCountWithinMax == getEnemyCount(State) <= maxEnemies

\* C9: once stop(), cleanup() or reset() has returned, no spawn callback of an
\* earlier start() (repeating timer or staggered one-shot) fires until start()
\* is called again.
C9_NoSpawnCallbackAfterStop ==
    lastOp \in {"timerTick", "delayedSpawn"} => ~quiesced

\* C10: on every teardown path of the Game scene the spawner's repeating timer
\* is cancelled before the scene is removed: when the scene is removed, the
\* spawner does not reference a timer still armed on that scene's clock.
C10_TimerCancelledBeforeSceneRemoved ==
    [][lastOp' = "sceneRemove" =>
          ~(spawnTimer.set /\ spawnTimer.armed /\ spawnTimer.scene = lastArg')]_vars

\* C11: under any sequence of getFromPool, returnToPool, setMaxPoolSize and
\* clearPool calls, the pool of a key never tracks more entries than the
\* key's configured max size (50 without one).
C11_PoolWithinMaxSize ==
    \A k \in PoolKeys : Len(pools[k].objs) <= maxSizeOf(Pools, k)

\* C12: for a key with max size N, after N+1 returnToPool calls on N+1 distinct
\* entries with nothing else between, the pool of the key tracks exactly N
\* entries and exactly one entry has been destroyed.
C12_SurplusReturnIsDestroyed ==
    \A k \in PoolKeys :
        (/\ poolRun.key = k
         /\ poolRun.calls = maxSizeOf(Pools, k) + 1
         /\ Cardinality(poolRun.objs) = poolRun.calls)
        => (/\ Len(pools[k].objs) = maxSizeOf(Pools, k)
            /\ poolRun.destroyed = 1)

\* C13: in every state whose game state is not Playing or Paused (Menu,
\* Loading, GameOver, Victory), getSession() returns the no-session value.
C13_NoSessionOutsidePlay ==
    getState(Gsm) \notin {"playing", "paused"} => getSession(Gsm) = NoSession

C15_SummaryIsFrozen ==
    [][(/\ getState(Gsm) \in {"game_over", "victory"}
        /\ lastOp' \in {"SCORE_UPDATE", "ENEMY_DEATH", "ITEM_COLLECT",
                        "PLAYER_DAMAGE", "GAME_OVER", "GAME_VICTORY"})
       => /\ session'.score = session.score
          /\ session'.stats = session.stats
          /\ session'.elapsedTime = session.elapsedTime]_vars

\* the callbacks registered for any event
Registered == UNION {{listeners[e][i] : i \in 1..Len(listeners[e])} : e \in BusEvents}

\* C16: a callback registered with once(E, cb) is invoked exactly once over
\* any sequence of later emit(E) calls, and is no longer registered after its
\* first delivery.
C16_OnceInvokedExactlyOnce ==
    \A w \in 1..MaxOnce :
        /\ onceCalls[w] <= 1
        /\ onceCalls[w] >= 1 => \A cb \in Registered : cb.once # w

\* C17: emit(E) invokes, before it returns, every callback registered for E at
\* the time of the call, each exactly once and in the order of registration,
\* and no callback that is registered only for another event.
C17_EmitInRegistrationOrder ==
    [][lastOp' = "emit" =>
          LET e == busCall'.event
          IN /\ busEmit(Bus, e).delivered = listeners[e]
             /\ delivered' = Len(listeners[e])]_vars

\* an emit invoked two callbacks while the other event has a callback of its own
C17_Witness ==
    /\ lastOp = "emit"
    /\ delivered = 2
    /\ \E e \in BusEvents \ {busCall.event} :
           \E i \in 1..Len(listeners[e]) : ~Has(listeners[busCall.event], listeners[e][i])

\* C18: if a callback throws during emit(E), emit itself does not throw and
\* every other callback registered for E is still invoked in that same emit.
C18_ThrowingCallbackIsContained ==
    [][(lastOp' = "emit" /\ \E i \in 1..Len(listeners[busCall'.event]) :
                               Throws(listeners[busCall'.event][i].fn)) =>
          LET e == busCall'.event
              r == busEmit(Bus, e)
          IN /\ ~r.threw /\ ~threw'
             /\ r.caught >= 1 /\ caught' = r.caught
             /\ \A i \in 1..Len(listeners[e]) : Has(r.delivered, listeners[e][i])]_vars

\* the first callback of an emit threw and the one after it was invoked
C18_Witness ==
    /\ lastOp = "emit"
    /\ caught = 1
    /\ delivered = 2
    /\ listeners[busCall.event][1] = Plain("boom")

\* C19: on(E, cb) is idempotent: registering the identical callback again
\* changes nothing, the listener count of E is one more than before cb was
\* registered, and one emit(E) invokes cb exactly once.
C19_OnIsIdempotent ==
    \A e \in BusEvents, fn \in Functions :
        LET cb == Plain(fn)
            a == busOn(Bus, e, cb)
            b == busOn(a, e, cb)
            d == busEmit(b, e).delivered
        IN /\ b.listeners = a.listeners
           /\ Len(a.listeners[e]) = Len(listeners[e]) + (IF Has(listeners[e], cb) THEN 0 ELSE 1)
           /\ Cardinality({i \in 1..Len(d) : d[i] = cb}) = 1
           /\ \A e2 \in BusEvents \ {e} : b.listeners[e2] = listeners[e2]

\* on() has been called with a callback that was registered for the event
C19_Witness ==
    /\ lastOp = "on"
    /\ busCall.known
    /\ Len(listeners[busCall.event]) = 2

\* C20: off(E, cb) removes exactly cb from E: afterwards emit(E) does not
\* invoke cb, the other callbacks of E stay in their order and the listeners
\* of other events are unchanged; off with a callback that was never
\* registered for E leaves all listeners unchanged and does not throw.
C20_OffRemovesExactlyOne ==
    \A e \in BusEvents, fn \in Functions :
        LET cb == Plain(fn)
            a == busOff(Bus, e, cb)
        IN /\ ~a.threw
           /\ ~Has(a.listeners[e], cb)
           /\ ~Has(busEmit(a, e).delivered, cb)
           /\ a.listeners[e] = SelectSeq(listeners[e], LAMBDA x : x # cb)
           /\ Len(a.listeners[e]) = Len(listeners[e]) - (IF Has(listeners[e], cb) THEN 1 ELSE 0)
           /\ \A e2 \in BusEvents \ {e} : a.listeners[e2] = listeners[e2]
           /\ ~Has(listeners[e], cb) => a.listeners = listeners

\* off() has removed a registered callback and left another one of the event
C20_Witness ==
    /\ lastOp = "off"
    /\ busCall.known
    /\ Len(listeners[busCall.event]) = 1

\* C21: removeAllListeners(E) leaves no listener for E and the listeners of
\* every other event as they were; removeAllListeners() without an argument
\* leaves no listener for any event; an emit after either invokes none of the
\* callbacks that were cleared.
C21_RemoveAllClearsOnlyItsEvent ==
    [][lastOp' = "removeAllListeners" =>
          LET e == busCall'.event
              cleared == {x \in BusEvents : e = NoEvent \/ x = e}
          IN /\ ~threw'
             /\ \A x \in cleared :
                    /\ listeners'[x] = <<>>
                    /\ busEmit([Bus EXCEPT !.listeners = listeners'], x).delivered = <<>>
             /\ \A x \in BusEvents \ cleared : listeners'[x] = listeners[x]]_vars

\* removeAllListeners(E) has cleared callbacks of E while another event keeps its own
C21_Witness ==
    /\ lastOp = "removeAllListeners"
    /\ busCall.event # NoEvent
    /\ busCall.known
    /\ \E x \in BusEvents \ {busCall.event} : listeners[x] # <<>>

\* C22: start() called while no player reference is set throws and leaves the
\* spawner stopped: it schedules no one-shot spawn, arms no repeating timer and
\* holds no timer afterwards.
C22_StartWithoutPlayerThrows ==
    [][(lastOp' = "start" /\ ~player) =>
          /\ threw'
          /\ shots' = shots
          /\ loops' = loops
          /\ spawnTimer' = spawnTimer
          /\ ~spawnTimer'.set]_vars

\* start() has thrown on an initialized spawner that has no player
C22_Witness ==
    /\ lastOp = "start"
    /\ threw
    /\ initialized
    /\ ~player

\* the cleanup() runs of one emit of SCENE_SHUTDOWN
CleanupRuns(st) == Len(SelectSeq(st.hooks, LAMBDA h : h = "onCleanup"))

\* C23: after any number of initialize() / cleanup() cycles, one emit of
\* SCENE_SHUTDOWN runs the manager's cleanup() exactly once and leaves it not
\* initialized, and the number of shutdown listeners that the manager holds on
\* the bus does not grow with the cycles (it stays at one).
C23_ShutdownCleansUpOnce ==
    [][/\ shutdownListeners' <= 1
       /\ (lastOp' = "sceneShutdown" /\ shutdownListeners > 0) =>
              /\ CleanupRuns(emitShutdown(State, shutdownListeners)) = 1
              /\ ~initialized'
              /\ scene' = NullRef]_vars

\* C24: when the spawner is initialized, a player is set and the live count is
\* below maxEnemies, one spawnEnemy() call does not throw, increases the live
\* count by exactly one and emits exactly one ENEMY_SPAWN, the enemy being
\* registered in the group when the event is emitted.
C24_SpawnBelowCapAddsOne ==
    [][(/\ lastOp' \in {"timerTick", "delayedSpawn"}
        /\ isInitialized(State)
        /\ player
        /\ getEnemyCount(State) < maxEnemies) =>
          LET r == spawnEnemy(State)
          IN /\ ~r.threw /\ ~threw'
             /\ r.emitted = 1 /\ emitted' = 1
             /\ getEnemyCount(r) = getEnemyCount(State) + 1
             /\ enemies'.size = enemies.size + 1]_vars

\* pending spawn callbacks on all clocks
Pending(l, s) == Sum(l, Scenes) + Sum(s, Scenes)

\* C25: when the live count is at or above maxEnemies, spawnEnemy() returns
\* without throwing, leaves the group as it is and emits no ENEMY_SPAWN; the
\* dropped tick is not queued: it leaves no callback pending that was not
\* pending before, so only the regular ticks spawn once the count has fallen.
C25_SpawnAtCapIsDropped ==
    [][(/\ lastOp' \in {"timerTick", "delayedSpawn"}
        /\ getEnemyCount(State) >= maxEnemies) =>
          LET r == spawnEnemy(State)
          IN /\ ~r.threw /\ ~threw'
             /\ r.emitted = 0 /\ emitted' = 0
             /\ r.enemies = enemies /\ enemies' = enemies
             /\ spawnTimer' = spawnTimer
             /\ loops' = loops
             /\ Pending(loops', shots') <= Pending(loops, shots)]_vars

\* a spawn callback has fired on a full group and was dropped
C25_Witness ==
    /\ lastOp \in {"timerTick", "delayedSpawn"}
    /\ ~threw
    /\ emitted = 0
    /\ player
    /\ enemies.status = "valid"
    /\ enemies.size >= maxEnemies

\* the weight of the first i entries of the table
RECURSIVE Cumulative(_)
Cumulative(i) == IF i = 0 THEN 0 ELSE enemyWeights[i].weight + Cumulative(i - 1)

\* C26: for the table [slime 50, flying_creature 30, goblin 20] and every draw
\* r in [0, 100) the selection returns the first entry whose cumulative weight
\* is >= r: slime for r <= 50, flying_creature for 50 < r <= 80, goblin for
\* 80 < r < 100; the result is an entry of the table, and the same r gives the
\* same archetype.
C26_WeightedSelection ==
    enemyType # "none" =>
        LET first == CHOOSE i \in 1..Len(enemyWeights) :
                         /\ Cumulative(i) * Resolution >= random
                         /\ \A k \in 1..(i - 1) : Cumulative(k) * Resolution < random
        IN /\ enemyType = enemyWeights[first].type
           /\ enemyType = (IF random <= 50 * Resolution THEN "slime"
                           ELSE IF random <= 80 * Resolution THEN "flying_creature"
                           ELSE "goblin")
           /\ \E i \in 1..Len(enemyWeights) : enemyWeights[i].type = enemyType
           /\ getRandomEnemyType(random) = enemyType

\* the draw on the boundary between flying_creature and goblin has been decided
C26_Witness ==
    /\ random = 80 * Resolution
    /\ enemyType = "flying_creature"

\* pos lies on one of the four edges of the view moved outward by the margin
OnEdge(pos, v) ==
    \/ /\ pos.y \in {v.top - Margin, v.bottom + Margin}
       /\ pos.x >= v.left - Margin /\ pos.x <= v.right + Margin
    \/ /\ pos.x \in {v.left - Margin, v.right + Margin}
       /\ pos.y >= v.top - Margin /\ pos.y <= v.bottom + Margin

\* C27: the position chosen by getRandomSpawnPosition() is one of the four
\* edge candidates (view edge moved outward by the margin 50); if a candidate
\* is at distance >= spawnDistance from the player, the chosen one is; if none
\* is, one of the four is chosen all the same.  With spawnDistance 400, the
\* player at (0,0) and the view [-500,500] x [-400,400] every chosen position
\* is at distance >= 400.
C27_SpawnPositionOnEdgeAndFar ==
    spawnPos.chosen =>
        LET c == spawnCase
            pos == [x |-> spawnPos.x, y |-> spawnPos.y]
            cands == candidates(c)
        IN /\ \E i \in 1..4 : cands[i] = pos
           /\ Len(cands) = 4
           /\ OnEdge(pos, c.view)
           /\ (\E i \in 1..4 : FarEnough(cands[i], c)) => FarEnough(pos, c)
           /\ (/\ c.spawnDistance = 400
               /\ c.player = [x |-> 0, y |-> 0]
               /\ c.view = [left |-> -500, right |-> 500, top |-> -400, bottom |-> 400])
              => (pos.x * pos.x + pos.y * pos.y >= 400 * 400)

\* a position was chosen where one candidate is too near and another far enough
C27_Witness ==
    /\ spawnPos.chosen
    /\ \E i \in 1..4 : ~FarEnough(candidates(spawnCase)[i], spawnCase)
    /\ \E i \in 1..4 : FarEnough(candidates(spawnCase)[i], spawnCase)

\* C28: for every elapsed time of s whole seconds the difficulty multiplier is
\* min(1.0 + 0.1 * floor(s / 30), 2.0), here in tenths: 1.0 for s < 30, 1.2 at
\* s = 65, 2.0 for every s >= 300; it never decreases as s grows, and
\* recomputing it at the same s gives the same value.
C28_DifficultyMultiplier ==
    [][LET s == gameElapsedTime' \div 1000
           m == difficultyMultiplier'
       IN /\ m = (IF 10 + s \div 30 <= 20 THEN 10 + s \div 30 ELSE 20)
          /\ s < 30 => m = 10
          /\ s = 65 => m = 12
          /\ s >= 300 => m = 20
          /\ gameElapsedTime' >= gameElapsedTime =>
                 m >= updateEnemyDifficulty(gameElapsedTime)
          /\ updateEnemyDifficulty(gameElapsedTime') = m]_vars

\* the multiplier has been computed 65 s into the game
C28_Witness ==
    /\ gameElapsedTime \div MsPerSecond = 65
    /\ difficultyMultiplier = 12

\* the edges of Menu -> Loading -> Playing <-> Paused -> {GameOver, Victory}
StateEdges ==
    { <<"menu", "loading">>, <<"loading", "playing">>,
      <<"playing", "paused">>, <<"paused", "playing">>,
      <<"playing", "game_over">>, <<"playing", "victory">>,
      <<"paused", "game_over">>, <<"paused", "victory">> }

\* C29: every change of the game state follows an edge of the graph
\* Menu -> Loading -> Playing <-> Paused -> {GameOver, Victory} and is caused
\* by a domain event: GAME_PAUSE changes the state only in Playing,
\* GAME_RESUME only in Paused, and GameOver and Victory are entered only from
\* Playing or Paused.
C29_StateChangesFollowGraph ==
    [][currentState' # currentState =>
          /\ <<currentState, currentState'>> \in StateEdges
          /\ lastOp' \in GsmEvents
          /\ lastOp' = "GAME_PAUSE" => currentState = "playing"
          /\ lastOp' = "GAME_RESUME" => currentState = "paused"
          /\ currentState' \in {"game_over", "victory"} =>
                 currentState \in {"playing", "paused"}]_vars

\* C30: during a session each score category (items, time, kills) equals the
\* sum of the deltas that SCORE_UPDATE events sent for it, the running total
\* the sum of the deltas of unrecognized categories, killCount and
\* itemsCollected the number of ENEMY_DEATH and ITEM_COLLECT events, and
\* damageTaken the sum of the damages of PLAYER_DAMAGE; with no session these
\* events change nothing and do not throw.
C30_CountersAreSums ==
    [][/\ (session'.exists /\ currentState' \in {"playing", "paused"}) =>
              /\ session'.score.items = sent'.items
              /\ session'.score.time = sent'.time
              /\ session'.score.kills = sent'.kills
              /\ session'.score.total = sent'.other
              /\ session'.stats.killCount = sent'.killCount
              /\ session'.stats.itemsCollected = sent'.itemsCollected
              /\ session'.stats.damageTaken = sent'.damageTaken
       /\ (~session.exists /\ lastOp' \in CountingEvents) =>
              /\ session' = session
              /\ currentState' = currentState
              /\ ~threw']_vars

\* C31: on the transition into GameOver or Victory, from Playing and from
\* Paused alike, the elapsed time of the session is stamped to now - startTime
\* and the total is the sum of the three category scores, with every score
\* delta the session had accumulated (in a category or in the running total)
\* still counted in it.
C31_FreezeStampsTimeAndTotal ==
    [][(/\ lastOp' \in {"GAME_OVER", "GAME_VICTORY"}
        /\ gsHandlers > 0
        /\ session.exists
        /\ currentState \in {"playing", "paused"}) =>
          /\ currentState' \in {"game_over", "victory"}
          /\ session'.elapsedTime = now - session.startTime
          /\ session'.score.total =
                 session'.score.items + session'.score.time + session'.score.kills
          /\ session'.score.total >=
                 session.score.items + session.score.time + session.score.kills
                 + session.score.total]_vars

\* the inactive entries of a pool, as indices
Idle(pm, k) == {i \in 1..Len(pm.pools[k].objs) : ~pm.objects[pm.pools[k].objs[i]].active}

\* getFromPool() calls starting at pm hand o out within n calls, none of them
\* calling the factory (which would construct `fresh`)
RECURSIVE HandedOut(_, _, _, _, _)
HandedOut(pm, k, o, fresh, n) ==
    IF n = 0 THEN FALSE
    ELSE LET g == getFromPool(pm, k, fresh)
         IN /\ ~g.objects[fresh].made
            /\ g.result = o \/ HandedOut(g, k, o, fresh, n - 1)

C33_ConfiguredSizeIsEnforced ==
    \A k \in PoolKeys, n \in 0..MaxPoolCap :
        LET a == setMaxPoolSize(Pools, k, n)
            pool == a.pools[k].objs
        IN /\ maxSizeOf(a, k) = n
           /\ \A o \in Objects :
                  (/\ a.pools[k].has /\ Len(pool) >= n
                   /\ objects[o].made /\ objects[o].destroys = 0) =>
                      LET r == returnToPool(a, k, o)
                      IN /\ Len(r.pools[k].objs) <= Len(pool)
                         /\ indexOf(pool, o) # 0 => r.destroyed = 1

\* the lifetime timers of bullet o that are pending on the clock
PendingTimers(o) ==
    (IF bulletTimers[o].lifeTimer = "armed" THEN 1 ELSE 0) + bulletTimers[o].stale

C35_ClearFaultIsRecovered ==
    [][/\ (/\ \/ lastOp' \in {"cleanup", "reset", "forceReinitialize"}
              \/ lastOp' = "initialize" /\ ~initialized
           /\ ClearThrows(State)) =>
              /\ ~threw'
              /\ enemies'.status # "faulty"
       /\ (lastOp' = "initialize" /\ ~initialized) =>
              /\ ~threw'
              /\ enemies' = [status |-> "valid", scene |-> lastArg',
                             maxSize |-> maxEnemies, size |-> 0]]_vars

\* cleanup() or reset() has caught the fault of clear() and dropped the group
C35_Witness ==
    /\ lastOp \in {"cleanup", "reset"}
    /\ ~threw
    /\ shutdownListeners > 0
    /\ enemies = NoGroup

\* C36: over any sequence of start(), stop() and updateSpawnConfig() calls on
\* an initialized spawner with its player set, at most one repeating spawn
\* timer is armed at any time, and every armed one is the timer the spawner
\* references, the one stop() would cancel.
C36_OneRepeatingTimer ==
    (isInitialized(State) /\ player) =>
        /\ Sum(loops, Scenes) <= 1
        /\ \A s \in Scenes :
               loops[s] > 0 => (/\ spawnTimer.set
                                /\ spawnTimer.armed
                                /\ spawnTimer.scene = s
                                /\ stop(State).loops[s] = 0)

\* C37: over any sequence of getFromPool, returnToPool, clearPool and
\* clearAllPools calls, returns of objects that were outstanding when their
\* pool was cleared included, getFromPool never returns an object that has
\* been destroyed, and the pool destroys no object more than once.
C37_NoDestroyedObjectHandedOut ==
    /\ \A k \in PoolKeys :
           Unmade # {} =>
               LET r == getFromPool(Pools, k, NextObject)
               IN r.objects[r.result].destroys = 0
    /\ \A o \in Objects : objects[o].destroys <= 1

\* C38: after any number of initialize() / cleanup() cycles the
\* GameStateManager has at most one set of handlers on the bus, so that one
\* ENEMY_DEATH raises killCount by exactly one and one GAME_START runs
\* startNewSession() once; a manager that was cleaned up and not initialized
\* again changes neither its state nor its session on any event.
C38_OneHandlerSetPerManager ==
    [][/\ gsHandlers' <= 1
       /\ (lastOp' = "ENEMY_DEATH" /\ session.exists) =>
              session'.stats.killCount = session.stats.killCount + 1
       /\ (lastOp' = "GAME_START" /\ gsInitialized) =>
              gsDeliver(Gsm, "GAME_START", [none |-> TRUE], gsHandlers)
                  = gsHandler(Gsm, "GAME_START", [none |-> TRUE])
       /\ (lastOp' \in GsmEvents /\ ~gsInitialized) =>
              UNCHANGED <<currentState, previousState, session>>]_vars

\* C39: a callback that off(E, cb) or removeAllListeners has unregistered
\* from E is not invoked again: not by a later emit(E), and not by the
\* emit(E) in progress when an earlier callback of that emit unregistered it.
C39_UnregisteredIsNeverInvoked ==
    [][lastOp' = "emit" =>
          LET e == busCall'.event
              r == busEmit(Bus, e)
          IN /\ ~r.late
             /\ \A i \in 1..Len(r.delivered) : Has(listeners[e], r.delivered[i])]_vars

\* C40: the callback of a once(E, cb) is delivered at most once, also when it
\* throws during its first delivery and when it emits E itself before it
\* returns.
C40_OnceDeliveredAtMostOnce ==
    \A w \in 1..MaxOnce : onceCalls[w] <= 1

====
